---- MODULE Spec2Model ----
(***************************************************************************)
(* CRAX++ exploit-synthesis core: the Dynamic Constraint Applier           *)
(* (DynamicRop) and the hijack path of the CRAX plugin that triggers it.   *)
(*                                                                         *)
(* Every engine callback is one atomic action: S2E dispatches callbacks    *)
(* strictly one after another, one execution state at a time.              *)
(***************************************************************************)
EXTENDS Integers, Sequences, FiniteSets, TLC

\* ------------------------------------------------------------------ bounds
\* Number of addConstraint() calls in one run.
MaxAdds == 2
\* Number of commitConstraints() calls in one run, over all states.
MaxCommits == 2
\* Number of callbacks of the hijack path (trigger and hijack) in one run.
MaxEvents == 3

\* ------------------------------------------------------------- environment
\* The execution states the engine explores, and the null state pointer.
States == {"s1", "s2"}
NoState == "null"

\* Register::X64, reduced to the control-flow register and one data register.
RIP == "RIP"
Registers == {"RAX", RIP}

\* klee::Expr: a ConstantExpr carries a literal, any other node is symbolic.
ConstantExpr(v) == [k |-> "const", v |-> v]
SymbolicExpr(n) == [k |-> "sym", v |-> n]
isConstantExpr(e) == e.k = "const"

\* VirtualMemoryMap::s_elfLabel, the module name of the primary binary image.
s_elfLabel == "target"

\* The mapped regions of the target process (half-open [start, end)): the
\* primary binary, one shared library, and nothing else.
MapInfo ==
    { [start |-> 16, end |-> 20, moduleName |-> s_elfLabel],
      [start |-> 32, end |-> 36, moduleName |-> "libc.so.6"] }

\* The load base recorded in the ELF object: where the binary was mapped.
ElfBase == (CHOOSE r \in MapInfo : r.moduleName = s_elfLabel).start

\* Values the user may declare as the runtime ELF base; 0 means "not set".
UserElfBases == {0, 48}

\* Memory cells that memory constraints target (mapped, writable cells).
MemAddrs == {18}

\* What every register and memory cell holds before any constraint is applied.
InitialExpr == SymbolicExpr(1)
\* The symbolic program counter the engine reports at a hijack.
SymbolicRipExpr == SymbolicExpr(2)

\* DynamicRop::Constraint = std::variant<RegisterConstraint, MemoryConstraint>.
\* One record shape for both alternatives: `tag` selects the alternative,
\* `reg` is meaningful for "reg", `addr` for "mem".
RegisterConstraint(r, e) == [tag |-> "reg", reg |-> r, addr |-> 0, expr |-> e]
MemoryConstraint(a, e) == [tag |-> "mem", reg |-> "", addr |-> a, expr |-> e]

\* The constraints producers add: a control-flow constraint on a literal
\* inside the binary, data-register constraints on a literal inside the
\* library and on a symbolic value, and a memory constraint.
Constraints ==
    { RegisterConstraint(RIP, ConstantExpr(17)),
      RegisterConstraint("RAX", ConstantExpr(33)),
      RegisterConstraint("RAX", SymbolicExpr(0)),
      MemoryConstraint(18, SymbolicExpr(0)) }

\* CorePlugin::symbolicAddressReason.
Reasons == {"PC", "MEMORY"}

\* ------------------------------------------------------------------- state
VARIABLES
    m_currentState,            \* CRAX::m_currentState, the process-wide selector
    m_currentConstraintGroup,  \* DynamicRop::m_currentConstraintGroup
    constraintsQueue,          \* per state: DynamicRop::State::constraintsQueue
    regs,                      \* per state: the symbolic register file
    memory,                    \* per state: the symbolic memory cells
    injections,                \* per state: the RopChainBuilder::add*Constraint calls, in order
    terminated,                \* per state: killed by Executor::terminateState
    userSpecifiedElfBase,      \* CRAX::getUserSpecifiedElfBase()
    crashed,                   \* the process died on an invalid access
    event,                     \* the last symbolic-address notification and what it did;
                               \* seq counts the notifications with reason PC
    addedSinceCommit,          \* history: constraints added since the last commit
    committed,                 \* history: per state, the groups committed to it, in order
    nAdds,                     \* history: number of addConstraint() calls
    nCommits,                  \* history: number of commitConstraints() calls
    \* -- callback dispatch and per-state module data
    pluginState,               \* per state and module: the slot of its ModuleState, 0 if none
    moduleStates,              \* the ModuleState objects on the heap, by slot
    hooks,                     \* the hook emissions of the last callback, with the selector
                               \* each hook saw
    m_scheduledAfterSyscallHooks, \* CRAX::m_scheduledAfterSyscallHooks, by pc
    m_allowedForkingStates,    \* CRAX::m_allowedForkingStates
    m_disableNativeForking,    \* CRAX::m_disableNativeForking (configuration)
    allowForking,              \* *allowForking as the last fork decision left it
    \* -- memory introspection (MemoryManager)
    engineRegions,             \* the regions MemoryMap::iterateRegions reports, in order
    mappedPages,               \* the pages with a host address (isMapped), by page number
    memBytes,                  \* what each address holds: a concrete byte or a symbolic one
    rsp,                       \* the concrete stack pointer of the selected state
    call,                      \* the last MemoryManager call: its name and arguments
    result,                    \* what that call returned
    \* -- exploit script generation (LeakBasedCoreGenerator)
    genArgs,                   \* what generateMainFunction works on: the state's IOStates
                               \* data, the rop chain and the target's checksec
    stateInfoIdx,              \* the loop index i of generateMainFunction
    exploit,                   \* the Exploit sink: the lines written and the pending payload
    inputStream,               \* the InputStream over stage1: its counters
    genAborted,                \* an assertion stopped the generation
    \* -- the Ret2syscall technique
    binaries,                  \* what the Exploit knows of the target ELF and of libc
    ret2syscall,               \* the Ret2syscall object: its fields once constructed
    techCall,                  \* the last call on the technique
    techResult,                \* what that call returned
    \* -- history kept for the properties about interleaved states
    addedWhile,                \* history: for each constraint of the in-progress group,
                               \* the state that was selected when it was added
    pendingSyscalls            \* history: per state, the syscalls it entered whose exit
                               \* hooks have not fired, by the pc of the exit

\* The variables of the dynamic constraint applier and the hijack path.
ropVars == <<m_currentState, m_currentConstraintGroup, constraintsQueue, regs, memory,
             injections, terminated, userSpecifiedElfBase, crashed, event,
             addedSinceCommit, committed, nAdds, nCommits>>

\* The variables of callback dispatch and of the per-state module data.
dispatchVars == <<pluginState, moduleStates, hooks, m_scheduledAfterSyscallHooks,
                  m_allowedForkingStates, m_disableNativeForking, allowForking>>

\* The variables of memory introspection.
memVars == <<engineRegions, mappedPages, memBytes, rsp, call, result>>

\* What a specification leaves alone when it does not exercise a part.
genVars == <<genArgs, stateInfoIdx, exploit, inputStream, genAborted>>
techVars == <<binaries, ret2syscall, techCall, techResult>>
ghostVars == <<addedWhile, pendingSyscalls>>
otherVars == <<dispatchVars, memVars, genVars, techVars, ghostVars>>

vars == <<ropVars, otherVars>>

\* The parts a specification does not exercise stay as constructed.
DispatchIdle ==
    /\ pluginState = <<>>
    /\ moduleStates = <<>>
    /\ hooks = <<>>
    /\ m_scheduledAfterSyscallHooks = <<>>
    /\ m_allowedForkingStates = {}
    /\ m_disableNativeForking = FALSE
    /\ allowForking = TRUE

GhostIdle ==
    /\ addedWhile = <<>>
    /\ pendingSyscalls = <<>>

TechIdle ==
    /\ binaries = <<>>
    /\ ret2syscall = <<>>
    /\ techCall = <<>>
    /\ techResult = <<>>

GenIdle ==
    /\ genArgs = <<>>
    /\ stateInfoIdx = 0
    /\ exploit = <<>>
    /\ inputStream = <<>>
    /\ genAborted = FALSE

MemoryIdle ==
    /\ engineRegions = <<>>
    /\ mappedPages = {}
    /\ memBytes = <<>>
    /\ rsp = 0
    /\ call = <<>>
    /\ result = <<>>

\* The history variables.
history == <<addedSinceCommit, committed, nAdds, nCommits>>

\* The program's own variables (everything but the history variables and the
\* record of the last notification).
progVars == <<m_currentState, m_currentConstraintGroup, constraintsQueue, regs, memory,
              injections, terminated, userSpecifiedElfBase, crashed>>

\* -------------------------------------------------------- sequence helpers
RECURSIVE Flatten(_)
\* The concatenation of a sequence of sequences.
Flatten(ss) == IF ss = <<>> THEN <<>> ELSE Head(ss) \o Flatten(Tail(ss))

IsPrefix(p, s) == Len(p) <= Len(s) /\ SubSeq(s, 1, Len(p)) = p

IsSuffix(p, s) == Len(p) <= Len(s) /\ SubSeq(s, Len(s) - Len(p) + 1, Len(s)) = p

\* The positions of x in the sequence s.
Positions(s, x) == {i \in 1..Len(s) : s[i] = x}

\* ------------------------------------------------- DynamicRop: the producer
\* std::vector::push_back on the in-progress group.
groupPushBack(g, c) == Append(g, c)

\* A queue that takes new groups at the front.
queuePush_front(q, g) == <<g>> \o q

\* std::queue::push: the group goes to the back of the queue.
queuePush(q, g) == Append(q, g)

\* A commit that copies the group and leaves it in place.
movedFrom_copy(g) == g

\* What std::move leaves in m_currentConstraintGroup: a vector that was
\* move-constructed from is empty.
movedFrom(g) == <<>>

\* DynamicRop::addConstraint(c).
addConstraint(c) ==
    /\ ~crashed
    /\ nAdds < MaxAdds
    /\ m_currentConstraintGroup' = groupPushBack(m_currentConstraintGroup, c)
    /\ addedSinceCommit' = Append(addedSinceCommit, c)
    /\ nAdds' = nAdds + 1
    /\ UNCHANGED <<m_currentState, constraintsQueue, regs, memory, injections,
                   terminated, userSpecifiedElfBase, crashed, event, committed, nCommits>>

\* DynamicRop::commitConstraints(): user code calls it from inside a callback,
\* so a state is selected and its module data exists (assert(modState)).
commitConstraints ==
    /\ ~crashed
    /\ m_currentState # NoState
    /\ ~terminated[m_currentState]
    /\ nCommits < MaxCommits
    /\ constraintsQueue' =
          [constraintsQueue EXCEPT ![m_currentState] = queuePush(@, m_currentConstraintGroup)]
    /\ m_currentConstraintGroup' = movedFrom(m_currentConstraintGroup)
    /\ committed' = [committed EXCEPT ![m_currentState] = Append(@, addedSinceCommit)]
    /\ addedSinceCommit' = <<>>
    /\ nCommits' = nCommits + 1
    /\ UNCHANGED <<m_currentState, regs, memory, injections, terminated,
                   userSpecifiedElfBase, crashed, event, nAdds>>

\* ------------------------------------------------- DynamicRop: the consumer
\* The outcomes of reading through the null pointer that dyn_cast<ConstantExpr>
\* returns for a non-constant expression: the access faults, or it yields
\* some value (here one inside the binary and one that is not mapped).
UBOutcomes == {[fault |-> TRUE, v |-> 0]} \cup {[fault |-> FALSE, v |-> v] : v \in {17, 5}}

\* mapInfo.find(addr): the regions holding addr (empty: mapInfo.end()).
mapInfoFind(addr) == {r \in MapInfo : r.start <= addr /\ addr < r.end}

\* it != mapInfo.end() && (*it)->moduleName == VirtualMemoryMap::s_elfLabel
isElfAddress(addr) == \E r \in mapInfoFind(addr) : r.moduleName = s_elfLabel

\* ELF::rebaseAddress: the same offset from the user-declared base.  Only
\* called on addresses inside the binary, so the subtraction never wraps.
rebaseAddress(addr, base) == addr - ElfBase + base

\* A flag that keeps only the last register constraint's comparison.
accumulateRip_last(has, reg) == reg = RIP

\* hasRipConstraint |= rc->reg == Register::X64::RIP
accumulateRip(has, reg) == has \/ reg = RIP

\* A write-back of the injected expression instead of the original one.
remarkedExpr_injected(e1, e2) == e1

\* The expression written back by reg().writeSymbolic(rc->reg, e2), given the
\* injected expression e1 and the constraint's own expression e2.
remarkedExpr(e1, e2) == e2

\* Executor::terminateState(state, ...) leaves its caller by a
\* CpuExitException exactly when the state is the one the engine is running;
\* for any other state it returns.
terminateStateThrows(state, running) == state = running

\* A failure handler whose terminateState always returns to the loop.
terminateOnFailure_returning(a, state, ok, throwing) ==
    IF ok THEN a
    ELSE [a EXCEPT !.terminated[state] = TRUE,
                   !.trace = Append(@, "terminateState: Dynamic ROP failed")]

\* if (!ok) { g_s2e->getExecutor()->terminateState(state, "Dynamic ROP failed"); }
\* The engine marks the state terminated; when the call leaves the callback
\* with a CpuExitException (`throwing`) nothing after it runs, otherwise the
\* call returns to the loop.
terminateOnFailure(a, state, ok, throwing) ==
    IF ok THEN a
    ELSE IF throwing
         THEN [a EXCEPT !.terminated[state] = TRUE,
                        !.restart = TRUE,
                        !.trace = @ \o <<"terminateState: Dynamic ROP failed",
                                         "CpuExitException from terminateState">>]
         ELSE [a EXCEPT !.terminated[state] = TRUE,
                        !.trace = Append(@, "terminateState: Dynamic ROP failed")]

\* One iteration of the loop body for a RegisterConstraint.  `a` is the
\* running result of the call; `state` is the handler's argument, `cur` the
\* selected state that reg() acts on; `ok` is the solver's answer and `ub`
\* the outcome of the read through `ce` when it is null.
applyRegisterConstraint(a, state, cur, c, ok, ub, throwing) ==
    LET constant == isConstantExpr(c.expr)
        value == IF constant THEN c.expr.v ELSE ub.v
        e2 == c.expr
        e1 == IF userSpecifiedElfBase # 0 /\ isElfAddress(value)
              THEN ConstantExpr(rebaseAddress(value, userSpecifiedElfBase))
              ELSE c.expr
    IN  IF ~constant /\ ub.fault
        THEN [a EXCEPT !.hasRipConstraint = accumulateRip(@, c.reg), !.fault = TRUE]
        ELSE terminateOnFailure(
                [a EXCEPT !.hasRipConstraint = accumulateRip(@, c.reg),
                          !.injections[state] = Append(@, [c |-> c, expr |-> e1, ok |-> ok]),
                          !.regs[cur][c.reg] = remarkedExpr(e1, e2)],
                state, ok, throwing)

\* One iteration of the loop body for a MemoryConstraint; mem() acts on `cur`.
applyMemoryConstraint(a, state, cur, c, ok, throwing) ==
    terminateOnFailure(
        [a EXCEPT !.injections[state] = Append(@, [c |-> c, expr |-> c.expr, ok |-> ok]),
                  !.memory[cur][c.addr] = c.expr],
        state, ok, throwing)

RECURSIVE applyGroup(_, _, _, _, _, _, _, _)
\* for (const auto &c : modState->constraintsQueue.front()) { ... }, from the
\* i-th constraint on.  The loop has no break: it goes on after a failed
\* constraint unless terminateState left the callback; a fault ends the
\* process.
applyGroup(a, state, cur, group, i, oks, ub, throwing) ==
    IF i > Len(group) \/ a.fault \/ a.restart THEN a
    ELSE applyGroup(
            IF group[i].tag = "reg"
            THEN applyRegisterConstraint(a, state, cur, group[i], oks[i], ub, throwing)
            ELSE applyMemoryConstraint(a, state, cur, group[i], oks[i], throwing),
            state, cur, group, i + 1, oks, ub, throwing)

\* An empty queue treated as fatal to the state.
noMoreConstraints_fatal(a, state) ==
    [a EXCEPT !.terminated[state] = TRUE,
              !.trace = Append(@, "terminateState: Dynamic ROP failed")]

\* if (modState->constraintsQueue.empty()) { log<WARN>() ...; return; }
noMoreConstraints(a, state) ==
    [a EXCEPT !.trace = Append(@, "warn: No more dynamic ROP constraints to apply")]

\* A pop that drops everything that is queued.
queuePop_all(q) == <<>>

\* modState->constraintsQueue.pop()
queuePop(q) == Tail(q)

\* The end of applyNextConstraintGroup, once the loop has run with result b:
\* pop the group, and throw CpuExitException if it held a RIP constraint.  A
\* fault inside the loop ends the process, and an exception out of
\* terminateState leaves the call, before either happens.
popAndRestart(b, state) ==
    IF b.fault THEN [b EXCEPT !.trace = Append(@, "SIGSEGV")]
    ELSE IF b.restart THEN b
    ELSE IF b.hasRipConstraint
         THEN [b EXCEPT !.constraintsQueue[state] = queuePop(@),
                        !.restart = TRUE,
                        !.trace = Append(@, "throw CpuExitException")]
         ELSE [b EXCEPT !.constraintsQueue[state] = queuePop(@)]

\* DynamicRop::applyNextConstraintGroup(state), entered with running result a.
applyNextConstraintGroup(a, state, cur, oks, ub, throwing) ==
    IF a.constraintsQueue[state] = <<>>
    THEN noMoreConstraints(
            [a EXCEPT !.trace = Append(@, "applyNextConstraintGroup"),
                      !.applyOn = Append(@, state)],
            state)
    ELSE popAndRestart(
            applyGroup([a EXCEPT !.trace = Append(@, "applyNextConstraintGroup"),
                                 !.applyOn = Append(@, state)],
                       state, cur, Head(a.constraintsQueue[state]), 1, oks, ub, throwing),
            state)

\* DynamicRop::beforeExploitGeneration(state).
beforeExploitGeneration(a, state, cur, oks, ub, throwing) ==
    applyNextConstraintGroup(a, state, cur, oks, ub, throwing)

\* ------------------------------------------------------- CRAX: hijack path
\* The running result of a callback, started from the current state.
callStart(trace) ==
    [constraintsQueue |-> constraintsQueue, regs |-> regs, memory |-> memory,
     injections |-> injections, terminated |-> terminated,
     hasRipConstraint |-> FALSE, fault |-> FALSE, restart |-> FALSE, genOk |-> FALSE,
     trace |-> trace, applyOn |-> <<>>]

\* g_crax->beforeExploitGeneration.emit(state): the signal DynamicRop
\* subscribes to in its constructor.  Its emission is not part of
\* onSymbolicRip; the dispatcher that emits it selects the state first, as
\* every dispatcher of a state-carrying callback does.  The state is the one
\* the engine is running, so a terminateState on it leaves the callback.
emitBeforeExploitGeneration(s, oks, ub) ==
    /\ ~crashed
    /\ ~terminated[s]
    /\ event.seq < MaxEvents
    /\ \E r \in {beforeExploitGeneration(callStart(<<"setCurrentState">>),
                                         s, s, oks, ub, terminateStateThrows(s, s))} :
          /\ m_currentState' = s
          /\ constraintsQueue' = r.constraintsQueue
          /\ regs' = r.regs
          /\ memory' = r.memory
          /\ injections' = r.injections
          /\ terminated' = r.terminated
          /\ crashed' = r.fault
          /\ event' = [handler |-> "beforeExploitGeneration", state |-> s, reason |-> "",
                       trace |-> r.trace, applyOn |-> r.applyOn,
                       genOk |-> FALSE, seq |-> event.seq + 1]
          /\ UNCHANGED <<m_currentConstraintGroup, userSpecifiedElfBase, history>>

\* A termination that is skipped when generation failed.
terminateAfterHooks_onSuccess(term, state, genOk) == [term EXCEPT ![state] = @ \/ genOk]

\* s2e()->getExecutor()->terminateState(*exploitableState, "End of exploit
\* generation"), after the hooks returned with result genOk.
terminateAfterHooks(term, state, genOk) == [term EXCEPT ![state] = TRUE]

\* exploitGenerationHooks.emit() runs the hooks, which end with result
\* genOk, and the state is terminated.
generateAndTerminate(a, state, genOk) ==
    [a EXCEPT !.trace = @ \o <<"exploitGenerationHooks",
                               "terminateState: End of exploit generation">>,
              !.genOk = genOk,
              !.terminated = terminateAfterHooks(@, state, genOk)]

\* The body of onSymbolicRip for reason == PC: setCurrentState(s);
\* reg().setRipSymbolic(symbolicRip) on the selected state; the register and
\* map dumps; the generation hooks; the termination.
hijack(s, genOk) ==
    generateAndTerminate(
        [callStart(<<"setCurrentState", "setRipSymbolic", "showRegInfo", "showMapInfo">>)
            EXCEPT !.regs[s][RIP] = SymbolicRipExpr],
        s, genOk)

\* A handler without the early return.
isHijack_any(reason) == TRUE

\* reason == CorePlugin::symbolicAddressReason::PC
isHijack(reason) == reason = "PC"

\* CRAX::onSymbolicRip(exploitableState, symbolicRip, concreteRip, concretize,
\* reason); the engine raises it on states it is running.
onSymbolicRip(s, reason, genOk) ==
    /\ ~crashed
    /\ ~terminated[s]
    /\ IF ~isHijack(reason)
       THEN /\ event' = [event EXCEPT !.handler = "onSymbolicRip", !.state = s,
                                      !.reason = reason, !.trace = <<>>,
                                      !.applyOn = <<>>, !.genOk = FALSE]
            /\ UNCHANGED <<progVars, history>>
       ELSE \E r \in {hijack(s, genOk)} :
                /\ m_currentState' = s
                /\ constraintsQueue' = r.constraintsQueue
                /\ regs' = r.regs
                /\ memory' = r.memory
                /\ injections' = r.injections
                /\ terminated' = r.terminated
                /\ crashed' = r.fault
                /\ event' = [handler |-> "onSymbolicRip", state |-> s, reason |-> reason,
                             trace |-> r.trace, applyOn |-> r.applyOn,
                             genOk |-> r.genOk, seq |-> event.seq + 1]
                /\ UNCHANGED <<m_currentConstraintGroup, userSpecifiedElfBase, history>>

\* CRAX::onExecuteInstructionEnd(state, pc): selects the state, then runs the
\* user's after-instruction hooks.
onExecuteInstructionEnd(s) ==
    /\ ~crashed
    /\ ~terminated[s]
    /\ m_currentState' = s
    /\ UNCHANGED <<m_currentConstraintGroup, constraintsQueue, regs, memory, injections,
                   terminated, userSpecifiedElfBase, crashed, event, history>>

\* ----------------------------------------------------------- specification
\* The group the next trigger on s pops (empty when nothing is queued).
NextGroup(s) == IF constraintsQueue[s] = <<>> THEN <<>> ELSE Head(constraintsQueue[s])

\* The solver's answers for the constraints of that group, one per constraint.
SolverAnswers(s) == [1..Len(NextGroup(s)) -> BOOLEAN]

\* The outcomes of the read through a null `ce`; they matter only when the
\* group holds a register constraint on a non-constant expression.
NoUB == [fault |-> FALSE, v |-> 0]
UBChoices(s) ==
    IF \E i \in 1..Len(NextGroup(s)) :
          NextGroup(s)[i].tag = "reg" /\ ~isConstantExpr(NextGroup(s)[i].expr)
    THEN UBOutcomes ELSE {NoUB}

Init ==
    /\ m_currentState = NoState
    /\ m_currentConstraintGroup = <<>>
    /\ constraintsQueue = [s \in States |-> <<>>]
    /\ regs = [s \in States |-> [r \in Registers |-> InitialExpr]]
    /\ memory = [s \in States |-> [x \in MemAddrs |-> InitialExpr]]
    /\ injections = [s \in States |-> <<>>]
    /\ terminated = [s \in States |-> FALSE]
    /\ userSpecifiedElfBase \in UserElfBases
    /\ crashed = FALSE
    /\ event = [handler |-> "initialize", state |-> NoState, reason |-> "",
                trace |-> <<>>, applyOn |-> <<>>, genOk |-> FALSE, seq |-> 0]
    /\ addedSinceCommit = <<>>
    /\ committed = [s \in States |-> <<>>]
    /\ nAdds = 0
    /\ nCommits = 0
    /\ DispatchIdle
    /\ MemoryIdle
    /\ GenIdle
    /\ TechIdle
    /\ GhostIdle

Next ==
    \/ \E c \in Constraints : addConstraint(c) /\ UNCHANGED otherVars
    \/ commitConstraints /\ UNCHANGED otherVars
    \/ \E s \in States : \E oks \in SolverAnswers(s), ub \in UBChoices(s) :
          emitBeforeExploitGeneration(s, oks, ub) /\ UNCHANGED otherVars
    \/ \E s \in States : onSymbolicRip(s, "MEMORY", FALSE) /\ UNCHANGED otherVars
    \/ \E s \in States, genOk \in BOOLEAN : onSymbolicRip(s, "PC", genOk) /\ UNCHANGED otherVars
    \/ \E s \in States : onExecuteInstructionEnd(s) /\ UNCHANGED otherVars

Spec == Init /\ [][Next]_vars

\* ------------------------------------------------------------- properties
Range(seq) == {seq[i] : i \in 1..Len(seq)}

\* The constraints applied to s so far, in the order they were applied.
Inj(s) == [i \in 1..Len(injections[s]) |-> injections[s][i].c]

\* The injections a step adds to s.
NewInjections(s) ==
    SubSeq(injections'[s], Len(injections[s]) + 1, Len(injections'[s]))

\* A step is a hijack notification (reason PC) on s.
HijackOn(s) ==
    event'.seq = event.seq + 1 /\ event'.handler = "onSymbolicRip" /\ event'.state = s

\* A step is a trigger of the applier (the before-generation signal) on s.
TriggerOn(s) ==
    event'.seq = event.seq + 1 /\ event'.handler = "beforeExploitGeneration"
                               /\ event'.state = s

\* The last notification was a hijack / a trigger, and what its handler did.
LastWasHijack == event.handler = "onSymbolicRip" /\ event.reason = "PC"
LastWasTrigger == event.handler = "beforeExploitGeneration"
Restarted(e) == "throw CpuExitException" \in Range(e.trace)
CutShort(e) == "CpuExitException from terminateState" \in Range(e.trace)
Exited(e) == Restarted(e) \/ CutShort(e)
FailedInjection(e) == "terminateState: Dynamic ROP failed" \in Range(e.trace)
HooksRan(e) == "exploitGenerationHooks" \in Range(e.trace)

\* C1: the queue of a state is strict FIFO.  The constraints applied to a
\* state are, in order, a prefix of the constraints committed to it taken
\* group by group in commit order, and on a live state what is still queued
\* is the rest of them: no constraint of a later group is applied before all
\* constraints of every earlier group.
C1_StrictFifo ==
    \A s \in States :
        /\ IsPrefix(Inj(s), Flatten(committed[s]))
        /\ (~crashed /\ ~terminated[s]) =>
              Flatten(committed[s]) = Inj(s) \o Flatten(constraintsQueue[s])

\* Two different non-empty groups were committed to one state and two
\* triggers have applied both.
C1_TwoGroupsApplied ==
    \E s \in States :
        /\ Len(committed[s]) = 2
        /\ committed[s][1] # <<>> /\ committed[s][2] # <<>>
        /\ committed[s][1] # committed[s][2]
        /\ Inj(s) = committed[s][1] \o committed[s][2]
        /\ constraintsQueue[s] = <<>>

\* C2: a trigger on a state whose queue is empty is a no-op.  The handler
\* only reports the warning: registers, memory, every queue and the
\* injection log are unchanged, no restart is requested and no state is
\* terminated.
C2_EmptyQueueNoOp ==
    [][\A s \in States :
          (TriggerOn(s) /\ constraintsQueue[s] = <<>>) =>
              /\ memory' = memory
              /\ regs' = regs
              /\ constraintsQueue' = constraintsQueue
              /\ injections' = injections
              /\ terminated' = terminated
              /\ ~crashed'
              /\ event'.trace = <<"setCurrentState",
                                  "applyNextConstraintGroup",
                                  "warn: No more dynamic ROP constraints to apply">>
      ]_vars

\* A trigger found nothing queued on a live state.
C2_TriggeredOnEmptyQueue ==
    /\ LastWasTrigger
    /\ "warn: No more dynamic ROP constraints to apply" \in Range(event.trace)
    /\ ~terminated[event.state]
    /\ constraintsQueue[event.state] = <<>>

\* C3: commitConstraints moves the whole in-progress group onto the selected
\* state's queue and leaves the in-progress group empty.  An addConstraint
\* step changes no queue and extends the in-progress group by the constraint;
\* a commitConstraints step appends exactly the constraints added since the
\* previous commit, in add order, to the selected state's queue only (an
\* empty group when nothing was added) and empties the in-progress group; so
\* every queued group is one of the committed lists, in commit order.
C3_CommitMovesWholeGroup ==
    [][/\ nAdds' = nAdds + 1 =>
            /\ constraintsQueue' = constraintsQueue
            /\ m_currentConstraintGroup' = addedSinceCommit'
            /\ Len(m_currentConstraintGroup') = Len(m_currentConstraintGroup) + 1
       /\ nCommits' = nCommits + 1 =>
            /\ constraintsQueue' =
                  [constraintsQueue EXCEPT ![m_currentState] = Append(@, addedSinceCommit)]
            /\ m_currentConstraintGroup' = <<>>
       /\ \A s \in States : IsSuffix(constraintsQueue'[s], committed'[s])
      ]_vars

\* A state's queue holds a committed group of two constraints followed by the
\* empty group of a commit that had no addConstraint before it.
C3_CommitAfterCommit ==
    \E s \in States :
        /\ Len(constraintsQueue[s]) = 2
        /\ Len(constraintsQueue[s][1]) = 2
        /\ constraintsQueue[s][2] = <<>>
        /\ m_currentConstraintGroup = <<>>

\* C4 as stated: every trigger on a state with a non-empty queue removes
\* exactly the head group of that state's queue: the remaining groups stay,
\* in order, and the queue of every other state is unchanged, with or
\* without a RIP constraint in the group.
C4_PopsExactlyHead ==
    [][\A s \in States :
          (TriggerOn(s) /\ constraintsQueue[s] # <<>> /\ ~crashed') =>
              constraintsQueue' = [constraintsQueue EXCEPT ![s] = Tail(@)]
      ]_vars

\* C4, amended: a trigger on a state with a non-empty queue that is not cut
\* short by the termination of the state removes exactly the head group of
\* that state's queue and changes no other queue, with or without a RIP
\* constraint in the group; a trigger cut short by the termination of the
\* state leaves every queue as it was, on a terminated state.
C4_PopsHeadUnlessCutShort ==
    [][\A s \in States :
          (TriggerOn(s) /\ constraintsQueue[s] # <<>> /\ ~crashed') =>
              IF CutShort(event')
              THEN constraintsQueue' = constraintsQueue /\ terminated'[s]
              ELSE constraintsQueue' = [constraintsQueue EXCEPT ![s] = Tail(@)]
      ]_vars

\* A trigger applied the first of two groups queued on a state, and the
\* second one is still queued.
C4_OneGroupLeft ==
    \E s \in States :
        /\ LastWasTrigger /\ event.state = s
        /\ Len(committed[s]) = 2
        /\ Inj(s) = committed[s][1] /\ Inj(s) # <<>>
        /\ constraintsQueue[s] = <<committed[s][2]>>

\* The register constraints of group g on register r / the memory constraints
\* of g on address x, as positions in g.
OnRegister(g, r) == {i \in 1..Len(g) : g[i].tag = "reg" /\ g[i].reg = r}
OnAddress(g, x) == {i \in 1..Len(g) : g[i].tag = "mem" /\ g[i].addr = x}
MaxOf(S) == CHOOSE i \in S : \A j \in S : j <= i

\* C5: a failed constraint application terminates the owning state at once.
\* In a trigger on s, a constraint whose application fails is the last one
\* applied to s, s is terminated, and no other state is terminated or
\* modified; nothing is applied to a terminated state again.
C5_FailureStopsTheGroup ==
    [][/\ \A s \in States :
            TriggerOn(s) =>
                /\ \A i \in 1..Len(NewInjections(s)) :
                      ~NewInjections(s)[i].ok =>
                          /\ i = Len(NewInjections(s))
                          /\ terminated'[s]
                /\ \A t \in States \ {s} :
                      /\ terminated'[t] = terminated[t]
                      /\ regs'[t] = regs[t]
                      /\ memory'[t] = memory[t]
                      /\ constraintsQueue'[t] = constraintsQueue[t]
                      /\ injections'[t] = injections[t]
       /\ \A s \in States : terminated[s] => injections'[s] = injections[s]
      ]_vars

\* A trigger on a state failed on the first of the two constraints of a
\* group: the second one was not applied and the state is terminated.
C5_FailedOnFirstOfTwo ==
    \E s \in States :
        /\ LastWasTrigger /\ event.state = s /\ FailedInjection(event)
        /\ Len(committed[s]) = 1 /\ Len(committed[s][1]) = 2
        /\ Len(injections[s]) = 1
        /\ injections[s][1].c = committed[s][1][1]
        /\ ~injections[s][1].ok
        /\ terminated[s]

\* The constraints a step applies to s.
NewlyApplied(s) == [i \in 1..Len(NewInjections(s)) |-> NewInjections(s)[i].c]

\* C6 as stated: the trigger leaves through an abrupt exit exactly when the
\* applied group holds a register constraint on RIP, and then only after
\* every constraint of the group has been applied and the group has been
\* popped.
C6_RestartIffRipConstraint ==
    [][\A s \in States :
          (TriggerOn(s) /\ ~crashed') =>
              /\ Exited(event') <=> OnRegister(NextGroup(s), RIP) # {}
              /\ Exited(event') =>
                    /\ NewlyApplied(s) = NextGroup(s)
                    /\ constraintsQueue'[s] = Tail(constraintsQueue[s])
      ]_vars

\* C6, amended: a trigger that is not cut short by the termination of the
\* state requests a restart exactly when the applied group holds a register
\* constraint on RIP, and then only after every constraint of the group has
\* been applied and the group has been popped: the exception is the last
\* thing the handler does, and the group is no longer queued.  A trigger cut
\* short by the termination of the state leaves through the engine's exit
\* with the group still queued, on a state that is terminated.
C6_RestartIffRipUnlessCutShort ==
    [][\A s \in States :
          (TriggerOn(s) /\ ~crashed') =>
              IF CutShort(event')
              THEN /\ ~Restarted(event')
                   /\ terminated'[s]
                   /\ constraintsQueue'[s] = constraintsQueue[s]
              ELSE /\ Restarted(event') <=> OnRegister(NextGroup(s), RIP) # {}
                   /\ Restarted(event') =>
                         /\ NewlyApplied(s) = NextGroup(s)
                         /\ constraintsQueue'[s] = Tail(constraintsQueue[s])
                         /\ event'.trace[Len(event'.trace)] = "throw CpuExitException"
      ]_vars

\* A trigger applied a group whose first constraint is on RIP and whose last
\* one is not, and requested the restart.
C6_RestartAfterWholeGroup ==
    \E s \in States :
        /\ LastWasTrigger /\ event.state = s /\ Restarted(event)
        /\ Len(committed[s]) = 1 /\ Len(committed[s][1]) = 2
        /\ Inj(s) = committed[s][1]
        /\ Inj(s)[1].tag = "reg" /\ Inj(s)[1].reg = RIP
        /\ ~(Inj(s)[2].tag = "reg" /\ Inj(s)[2].reg = RIP)
        /\ constraintsQueue[s] = <<>>

\* The expression a register constraint is to inject under C7: the literal
\* rebased to the user-declared base when a base is set and the literal lies
\* in the primary binary image, the constraint's own expression otherwise.
ExpectedInjection(c) ==
    IF isConstantExpr(c.expr) /\ userSpecifiedElfBase # 0 /\ isElfAddress(c.expr.v)
    THEN ConstantExpr(c.expr.v - ElfBase + userSpecifiedElfBase)
    ELSE c.expr

\* C7: a register constraint injects the literal rebased to the
\* user-declared base exactly when a base is set and the literal lies in the
\* primary binary image, and injects the original expression unchanged in
\* every other case (a non-constant expression included), without the
\* handler failing.
C7_RebaseExactlyElfLiterals ==
    /\ ~crashed
    /\ \A s \in States : \A i \in 1..Len(injections[s]) :
          injections[s][i].c.tag = "reg" =>
              injections[s][i].expr = ExpectedInjection(injections[s][i].c)

\* C8: after a trigger, every register and memory cell targeted by a
\* constraint the trigger applied holds the original expression of the
\* (last) constraint applied on it, never the rebased one; the registers and
\* cells of the triggered state that no applied constraint targets keep
\* their values, and the writes touch no other state.
C8_RemarkedWithOriginal ==
    [][\A s \in States :
          (TriggerOn(s) /\ ~crashed') =>
              /\ \A r \in Registers :
                    regs'[s][r] =
                        IF OnRegister(NewlyApplied(s), r) # {}
                        THEN NewlyApplied(s)[MaxOf(OnRegister(NewlyApplied(s), r))].expr
                        ELSE regs[s][r]
              /\ \A x \in MemAddrs :
                    memory'[s][x] =
                        IF OnAddress(NewlyApplied(s), x) # {}
                        THEN NewlyApplied(s)[MaxOf(OnAddress(NewlyApplied(s), x))].expr
                        ELSE memory[s][x]
              /\ \A t \in States \ {s} : regs'[t] = regs[t] /\ memory'[t] = memory[t]
      ]_vars

\* A RIP constraint on a literal inside the binary was injected rebased, the
\* register holds the original literal, and a memory constraint of the same
\* state left its expression in the cell.
C8_RebasedInjectionOriginalWrite ==
    \E s \in States :
        /\ userSpecifiedElfBase = 48
        /\ regs[s][RIP] = ConstantExpr(17)
        /\ \E i \in 1..Len(injections[s]) :
              /\ injections[s][i].c = RegisterConstraint(RIP, ConstantExpr(17))
              /\ injections[s][i].expr = ConstantExpr(49)
        /\ memory[s][18] = SymbolicExpr(0)

\* C9: on a notification with reason PC the generation hooks run and the
\* originating state is terminated once they complete, whatever their
\* result; a notification with any other reason changes nothing: selector,
\* registers, memory, queues and liveness stay as they were and no hook runs.
C9_TerminatedAfterHooks ==
    [][/\ \A s \in States :
            HijackOn(s) =>
               /\ event'.reason = "PC"
               /\ HooksRan(event')
               /\ terminated'[s]
               /\ event'.trace[Len(event'.trace)] =
                     "terminateState: End of exploit generation"
       /\ (event' # event /\ event'.handler = "onSymbolicRip" /\ event'.reason # "PC") =>
               /\ UNCHANGED progVars
               /\ ~HooksRan(event')
      ]_vars

\* The hooks of a hijack completed without generating an exploit and the
\* state is terminated, the other one is not.
C9_TerminatedThoughGenerationFailed ==
    /\ LastWasHijack
    /\ HooksRan(event) /\ ~event.genOk
    /\ terminated[event.state]
    /\ \E s \in States \ {event.state} : ~terminated[s]

\* C10: for every hijack event the applier runs exactly once, on the
\* hijacked state, and before the generation hooks; when it requests a
\* restart, neither the hooks nor the end-of-generation termination of that
\* event run.
C10_AppliedOnceBeforeHooks ==
    LastWasHijack =>
        /\ event.applyOn = <<event.state>>
        /\ Cardinality(Positions(event.trace, "applyNextConstraintGroup")) = 1
        /\ \A i \in Positions(event.trace, "applyNextConstraintGroup"),
              j \in Positions(event.trace, "exploitGenerationHooks") : i < j
        /\ Restarted(event) =>
              /\ ~HooksRan(event)
              /\ "terminateState: End of exploit generation" \notin Range(event.trace)

\* ===================================================== callback dispatch
\* The code addresses the engine reports and the instruction at each: two
\* adjacent syscall instructions (two bytes each), an ordinary instruction,
\* and an address the disassembler cannot decode.
PCs == {0, 2, 4, 6}
Program == [pc \in PCs |->
               CASE pc = 0 -> "syscall" [] pc = 2 -> "syscall" [] pc = 4 -> "nop" [] OTHER -> ""]

\* m_disassembler.disasm(pc): std::nullopt when the bytes do not decode.
NoInstruction == [address |-> -1, mnemonic |-> ""]
disasm(pc) == IF Program[pc] = "" THEN NoInstruction
              ELSE [address |-> pc, mnemonic |-> Program[pc]]

\* The concrete values reg().readConcrete(RAX) yields on the selected state.
RaxValues == {0, 1}
NoCtx == [nr |-> -1, ret |-> -1]

\* One hook emission: the signal, the state argument of the callback that
\* emitted it, the selector at that moment, and the syscall context handed on.
Emission(hook, state, selector, ctx) ==
    [hook |-> hook, state |-> state, selector |-> selector, ctx |-> ctx]

\* CRAX::setCurrentState(state): the selector a callback runs under.
setCurrentState(cur, state) == state

\* CRAX::onExecuteSyscallStart(state, pc), on the running result
\* d = [sched, hooks] under selector cur: snapshot the registers of the
\* selected state, schedule the exit hook at pc + 2, emit the entry hooks.
onExecuteSyscallStart(d, state, cur, pc, rax) ==
    [sched |-> (pc + 2 :> [nr |-> rax, ret |-> 0]) @@ d.sched,
     hooks |-> Append(d.hooks,
                      Emission("beforeSyscallHooks", state, cur, [nr |-> rax, ret |-> 0]))]

\* CRAX::onExecuteSyscallEnd(state, pc, syscall): `syscall` is a reference to
\* the map entry, so the return value is stored in the map; emit the exit hooks.
onExecuteSyscallEnd(d, state, cur, pc, rax) ==
    [sched |-> (pc :> [d.sched[pc] EXCEPT !.ret = rax]) @@ d.sched,
     hooks |-> Append(d.hooks,
                      Emission("afterSyscallHooks", state, cur,
                               [d.sched[pc] EXCEPT !.ret = rax]))]

\* The body of onExecuteInstructionStart after a successful disasm, under
\* selector cur: the syscall entry, a scheduled syscall exit (the entry is
\* not erased), then the user's before-instruction hooks.
instructionStart(state, cur, pc, rax) ==
    LET d0 == [sched |-> m_scheduledAfterSyscallHooks, hooks |-> <<>>]
        d1 == IF disasm(pc).mnemonic = "syscall"
              THEN onExecuteSyscallStart(d0, state, cur, pc, rax) ELSE d0
        d2 == IF pc \in DOMAIN d1.sched
              THEN onExecuteSyscallEnd(d1, state, cur, pc, rax) ELSE d1
    IN  [d2 EXCEPT !.hooks = Append(@, Emission("beforeInstructionHooks", state, cur, NoCtx))]

\* CRAX::onProcessLoad(state, cr3, pid, imageFileName): selects the state;
\* no module hook is emitted.
onProcessLoad(s) ==
    /\ ~terminated[s]
    /\ m_currentState' = setCurrentState(m_currentState, s)
    /\ hooks' = <<>>
    /\ UNCHANGED <<m_scheduledAfterSyscallHooks, m_allowedForkingStates, allowForking>>

\* CRAX::onModuleLoad(state, md): selects the state, then uses mem() on it;
\* no module hook is emitted.
onModuleLoad(s) ==
    /\ ~terminated[s]
    /\ m_currentState' = setCurrentState(m_currentState, s)
    /\ hooks' = <<>>
    /\ UNCHANGED <<m_scheduledAfterSyscallHooks, m_allowedForkingStates, allowForking>>

\* CRAX::onExecuteInstructionStart(state, pc); rax is the concrete RAX of the
\* selected state.
onExecuteInstructionStart(s, pc, rax) ==
    /\ ~terminated[s]
    /\ m_currentState' = setCurrentState(m_currentState, s)
    /\ IF disasm(pc) = NoInstruction
       THEN hooks' = <<>> /\ UNCHANGED m_scheduledAfterSyscallHooks
       ELSE \E d \in {instructionStart(s, setCurrentState(m_currentState, s), pc, rax)} :
                /\ hooks' = d.hooks
                /\ m_scheduledAfterSyscallHooks' = d.sched
    /\ UNCHANGED <<m_allowedForkingStates, allowForking>>

\* The hooks onExecuteInstructionEnd emits once the selector is set: the
\* user's after-instruction hooks unless disasm fails.
afterInstruction(state, cur, pc) ==
    IF disasm(pc) = NoInstruction THEN <<>>
    ELSE <<Emission("afterInstructionHooks", state, cur, NoCtx)>>

\* The module decision hooks' verdict on *allowForking (TRUE on entry): a
\* module may clear it.
moduleDecide(allow, veto) == allow /\ ~veto

\* The core asks for a fork of state s: s joins m_allowedForkingStates.
requestFork(s) ==
    /\ ~terminated[s]
    /\ m_allowedForkingStates' = m_allowedForkingStates \cup {s}
    /\ hooks' = <<>>
    /\ UNCHANGED <<m_currentState, m_scheduledAfterSyscallHooks, allowForking>>

\* A decision that leaves the request of the state in place.
onStateForkDecide_keepsRequest(s, veto) ==
    /\ ~terminated[s]
    /\ IF ~m_disableNativeForking
       THEN /\ allowForking' = TRUE
            /\ hooks' = <<>>
            /\ UNCHANGED m_allowedForkingStates
       ELSE /\ hooks' = <<Emission("onStateForkModuleDecide", s, m_currentState, NoCtx)>>
            /\ allowForking' = (moduleDecide(TRUE, veto) \/ s \in m_allowedForkingStates)
            /\ UNCHANGED m_allowedForkingStates
    /\ UNCHANGED <<m_currentState, m_scheduledAfterSyscallHooks>>

\* CRAX::onStateForkDecide(state, allowForking).  The selector is not
\* touched: the module hooks run under whatever state was selected last.
onStateForkDecide(s, veto) ==
    /\ ~terminated[s]
    /\ IF ~m_disableNativeForking
       THEN /\ allowForking' = TRUE
            /\ hooks' = <<>>
            /\ UNCHANGED m_allowedForkingStates
       ELSE /\ hooks' = <<Emission("onStateForkModuleDecide", s, m_currentState, NoCtx)>>
            /\ allowForking' = (moduleDecide(TRUE, veto) \/ s \in m_allowedForkingStates)
            /\ m_allowedForkingStates' = m_allowedForkingStates \ {s}
    /\ UNCHANGED <<m_currentState, m_scheduledAfterSyscallHooks>>

\* The hooks a hijack notification emits, read off the handler's record.
hijackHooks(e, cur) ==
    IF HooksRan(e) THEN <<Emission("exploitGenerationHooks", e.state, cur, NoCtx)>> ELSE <<>>

\* The variables the dispatch specification leaves as constructed.
dispatchFrame == <<m_currentConstraintGroup, constraintsQueue, regs, memory, injections,
                   terminated, userSpecifiedElfBase, crashed, event, history,
                   pluginState, moduleStates, m_disableNativeForking, memVars, genVars, techVars, ghostVars>>

InitDispatch ==
    /\ m_currentState = NoState
    /\ m_currentConstraintGroup = <<>>
    /\ constraintsQueue = [s \in States |-> <<>>]
    /\ regs = [s \in States |-> [r \in Registers |-> InitialExpr]]
    /\ memory = [s \in States |-> [x \in MemAddrs |-> InitialExpr]]
    /\ injections = [s \in States |-> <<>>]
    /\ terminated = [s \in States |-> FALSE]
    /\ userSpecifiedElfBase = 0
    /\ crashed = FALSE
    /\ event = [handler |-> "initialize", state |-> NoState, reason |-> "",
                trace |-> <<>>, applyOn |-> <<>>, genOk |-> FALSE, seq |-> 0]
    /\ addedSinceCommit = <<>>
    /\ committed = [s \in States |-> <<>>]
    /\ nAdds = 0
    /\ nCommits = 0
    /\ pluginState = <<>>
    /\ moduleStates = <<>>
    /\ hooks = <<>>
    /\ m_scheduledAfterSyscallHooks = <<>>
    /\ m_allowedForkingStates = {}
    /\ m_disableNativeForking \in BOOLEAN
    /\ allowForking = TRUE
    /\ MemoryIdle
    /\ GenIdle
    /\ TechIdle
    /\ GhostIdle

NextDispatch ==
    \/ \E s \in States : onProcessLoad(s) /\ UNCHANGED dispatchFrame
    \/ \E s \in States : onModuleLoad(s) /\ UNCHANGED dispatchFrame
    \/ \E s \in States, pc \in PCs, rax \in RaxValues :
          onExecuteInstructionStart(s, pc, rax) /\ UNCHANGED dispatchFrame
    \/ \E s \in States, pc \in PCs :
          /\ onExecuteInstructionEnd(s)
          /\ hooks' = afterInstruction(s, m_currentState', pc)
          /\ UNCHANGED <<pluginState, moduleStates, m_scheduledAfterSyscallHooks,
                         m_allowedForkingStates, m_disableNativeForking, allowForking,
                         memVars, genVars, techVars, ghostVars>>
    \/ \E s \in States, veto \in BOOLEAN : onStateForkDecide(s, veto) /\ UNCHANGED dispatchFrame
    \/ \E s \in States : requestFork(s) /\ UNCHANGED dispatchFrame
    \/ \E s \in States, genOk \in BOOLEAN :
          /\ onSymbolicRip(s, "PC", genOk)
          /\ hooks' = hijackHooks(event', m_currentState')
          /\ UNCHANGED <<pluginState, moduleStates, m_scheduledAfterSyscallHooks,
                         m_allowedForkingStates, m_disableNativeForking, allowForking,
                         memVars, genVars, techVars, ghostVars>>

SpecDispatch == InitDispatch /\ [][NextDispatch]_vars

\* C11: every module hook runs under the selector of its callback.  For each
\* hook emitted from a callback that carries a state (hijack, instruction
\* start and end, syscall entry and exit, fork decision), the current-state
\* selector at the time of the emission is that callback's state.
C11_HooksRunUnderCallbackState ==
    \A i \in 1..Len(hooks) : hooks[i].selector = hooks[i].state

\* The positions of the emissions of a signal for state s in a hook list.
EmissionsOf(hs, hook, s) == {i \in 1..Len(hs) : hs[i].hook = hook /\ hs[i].state = s}

\* C26: the syscall events of one state are delivered in chronological
\* order.  When a state entered syscall k in one callback and the next
\* callback delivers both the exit of k and the entry of syscall k+1 of that
\* state (k+1 is the instruction at pc + 2), the exit hooks of k fire before
\* the entry hooks of k+1.
C26_ExitBeforeNextEntry ==
    [][\A s \in States :
          \A k \in EmissionsOf(hooks, "beforeSyscallHooks", s) :
             \A x \in EmissionsOf(hooks', "afterSyscallHooks", s) :
                \A e \in EmissionsOf(hooks', "beforeSyscallHooks", s) :
                   hooks'[x].ctx.nr = hooks[k].ctx.nr => x < e
      ]_vars

\* C27: the fork decision defaults to allow and the modules may veto it.
\* With native forking disabled, the module hook is consulted, the fork is
\* denied exactly when a module vetoed it and the core had not requested a
\* fork of that state, and the decision consumes the state's request, so a
\* request permits one fork.  With native forking not disabled the decision
\* stays allow, no module hook is consulted and nothing else changes.
C27_ForkDecision ==
    [][\A s \in States, veto \in BOOLEAN :
          onStateForkDecide(s, veto) =>
             IF m_disableNativeForking
             THEN /\ Len(hooks') = 1 /\ hooks'[1].hook = "onStateForkModuleDecide"
                  /\ allowForking' = ~(veto /\ s \notin m_allowedForkingStates)
                  /\ m_allowedForkingStates' = m_allowedForkingStates \ {s}
             ELSE /\ allowForking'
                  /\ hooks' = <<>>
                  /\ m_allowedForkingStates' = m_allowedForkingStates
      ]_vars

\* A fork was denied on a module's veto while the other state's request is
\* still waiting.
C27_ForkDenied ==
    /\ m_disableNativeForking
    /\ ~allowForking
    /\ Len(hooks) = 1 /\ hooks[1].hook = "onStateForkModuleDecide"
    /\ m_allowedForkingStates = States \ {hooks[1].state}

\* ================================================ per-state module data
\* Longest timeline the tracker records.
MaxStateInfos == 2

\* The modules that attach data to every execution state.
Modules == {"IOStates", "DynamicRop"}

\* "-1" stored in a uint32_t field: the value 4294967295, larger than every
\* timeline index.  It is kept as -1 and compared through u32 operators.
UINT32_NEG1 == -1

\* IOStates::State::State(): the data a new state starts with.
IOStatesState ==
    [leakableOffset |-> 0,
     lastInputStateInfoIdx |-> 0,
     lastInputStateInfoIdxBeforeFirstSymbolicRip |-> UINT32_NEG1,
     currentLeakTargetIdx |-> 0,
     stateInfoList |-> <<>>]

\* DynamicRop::State: the queue of committed groups, empty at first.
DynamicRopState == [constraintsQueue |-> <<>>]

\* IOStates::InputStateInfo and OutputStateInfo, the timeline records.
InputStateInfo(offset) == [kind |-> "input", offset |-> offset]
OutputStateInfo(valid, bufIndex, baseOffset, leakType) ==
    [kind |-> "output", valid |-> valid, bufIndex |-> bufIndex,
     baseOffset |-> baseOffset, leakType |-> leakType]
StateInfos == {InputStateInfo(1), OutputStateInfo(TRUE, 0, 0, "CANARY")}

\* State(const State &): the implicit copy constructor copies every member,
\* the vector element by element.
copyState(d) == d

\* A clone that hands out the parent's own object.
clone_shared(heap, slot) == [heap |-> heap, slot |-> slot]

\* IOStates::State::clone(): return new State(*this).  The new object gets a
\* slot of its own on the heap.
clone(heap, slot) ==
    [heap |-> Append(heap, copyState(heap[slot])), slot |-> Len(heap) + 1]

\* DynamicRop::State::clone(), the same override for the queue's owner.
cloneDynamicRopState(heap, slot) == clone(heap, slot)

\* g_crax->getPluginModuleState(state, module): the module's data for state.
getPluginModuleState(state, module) == moduleStates[pluginState[state][module]]

\* A state the engine has created.
Exists(s) == \A m \in Modules : pluginState[s][m] # 0

\* The engine forks `parent` into the new state `child`: the data of every
\* module is cloned for the child.
onStateFork(parent, child) ==
    /\ Exists(parent) /\ ~Exists(child)
    /\ \E io \in {clone(moduleStates, pluginState[parent]["IOStates"])} :
       \E rop \in {cloneDynamicRopState(io.heap, pluginState[parent]["DynamicRop"])} :
          /\ moduleStates' = rop.heap
          /\ pluginState' = [pluginState EXCEPT ![child] =
                                [m \in Modules |-> IF m = "IOStates" THEN io.slot ELSE rop.slot]]
    /\ UNCHANGED <<m_currentState, m_currentConstraintGroup, addedSinceCommit, nAdds, nCommits>>

\* DynamicRop::commitConstraints() on the module data of the selected state.
commitToModuleState ==
    /\ m_currentState # NoState
    /\ nCommits < MaxCommits
    /\ moduleStates' =
          [moduleStates EXCEPT ![pluginState[m_currentState]["DynamicRop"]].constraintsQueue =
              queuePush(@, m_currentConstraintGroup)]
    /\ m_currentConstraintGroup' = movedFrom(m_currentConstraintGroup)
    /\ addedSinceCommit' = <<>>
    /\ nCommits' = nCommits + 1
    /\ UNCHANGED <<m_currentState, pluginState, nAdds>>

\* The tracker appends a record to the timeline of state s; an input record
\* becomes the last input state.
recordStateInfo(s, info) ==
    /\ Exists(s)
    /\ LET slot == pluginState[s]["IOStates"]
           list == moduleStates[slot].stateInfoList
       IN  /\ Len(list) < MaxStateInfos
           /\ moduleStates' =
                 [moduleStates EXCEPT
                     ![slot].stateInfoList = Append(@, info),
                     ![slot].lastInputStateInfoIdx =
                         IF info.kind = "input" THEN Len(list) ELSE @]
    /\ UNCHANGED <<m_currentState, m_currentConstraintGroup, pluginState,
                   addedSinceCommit, nAdds, nCommits>>

\* What the fork specification leaves as constructed.
forkFrame == <<constraintsQueue, regs, memory, injections, terminated, userSpecifiedElfBase,
               crashed, event, committed, hooks, m_scheduledAfterSyscallHooks,
               m_allowedForkingStates, m_disableNativeForking, allowForking, memVars,
               genVars, techVars, ghostVars>>

\* The engine has created the first state; the second one does not exist yet.
InitFork ==
    /\ m_currentState = NoState
    /\ m_currentConstraintGroup = <<>>
    /\ constraintsQueue = [s \in States |-> <<>>]
    /\ regs = [s \in States |-> [r \in Registers |-> InitialExpr]]
    /\ memory = [s \in States |-> [x \in MemAddrs |-> InitialExpr]]
    /\ injections = [s \in States |-> <<>>]
    /\ terminated = [s \in States |-> FALSE]
    /\ userSpecifiedElfBase = 0
    /\ crashed = FALSE
    /\ event = [handler |-> "initialize", state |-> NoState, reason |-> "",
                trace |-> <<>>, applyOn |-> <<>>, genOk |-> FALSE, seq |-> 0]
    /\ addedSinceCommit = <<>>
    /\ committed = [s \in States |-> <<>>]
    /\ nAdds = 0
    /\ nCommits = 0
    /\ pluginState = [s \in States |->
                         IF s = "s1" THEN [m \in Modules |-> IF m = "IOStates" THEN 1 ELSE 2]
                         ELSE [m \in Modules |-> 0]]
    /\ moduleStates = <<IOStatesState, DynamicRopState>>
    /\ hooks = <<>>
    /\ m_scheduledAfterSyscallHooks = <<>>
    /\ m_allowedForkingStates = {}
    /\ m_disableNativeForking = FALSE
    /\ allowForking = TRUE
    /\ MemoryIdle
    /\ GenIdle
    /\ TechIdle
    /\ GhostIdle

NextFork ==
    \/ \E p \in States, c \in States : onStateFork(p, c) /\ UNCHANGED forkFrame
    \/ \E s \in States :
          Exists(s) /\ onExecuteInstructionEnd(s) /\ UNCHANGED otherVars
    \/ addConstraint(MemoryConstraint(18, SymbolicExpr(0))) /\ UNCHANGED otherVars
    \/ commitToModuleState /\ UNCHANGED forkFrame
    \/ \E s \in States, info \in StateInfos : recordStateInfo(s, info) /\ UNCHANGED forkFrame

SpecFork == InitFork /\ [][NextFork]_vars

\* The module data of a state, as its owner sees it.
View(s) == [m \in Modules |-> getPluginModuleState(s, m)]

\* C12: a fork gives the child module data equal to the parent's at that
\* moment (timeline with its index fields, and constraint queue) and leaves
\* the parent's as it was; from then on a step that changes the data of one
\* state changes the data of no other state.
C12_ForkClonesIndependently ==
    [][/\ \A p \in States, c \in States :
            (Exists(p) /\ ~Exists(c) /\ pluginState'[c] # pluginState[c]) =>
                /\ View(c)' = View(p)
                /\ View(p)' = View(p)
       /\ \A s \in States, x \in States :
            (s # x /\ Exists(s) /\ Exists(x) /\ View(s)' # View(s)) => View(x)' = View(x)
      ]_vars

\* After the fork the parent recorded one more timeline entry and the child
\* committed one more group: each sees only its own.
C12_DivergedAfterFork ==
    /\ Exists("s1") /\ Exists("s2")
    /\ Len(View("s1")["IOStates"].stateInfoList) = 2
    /\ Len(View("s2")["IOStates"].stateInfoList) = 1
    /\ Len(View("s1")["DynamicRop"].constraintsQueue) = 1
    /\ Len(View("s2")["DynamicRop"].constraintsQueue) = 2
    /\ View("s2")["DynamicRop"].constraintsQueue[1] # <<>>

\* ================================================== memory introspection
\* The pages 1..MapPages may be mapped when getMapInfo is called.
MapPages == 3

\* Addresses are uint64_t; the model keeps AddrBits of them, and a page is
\* 2^PageBits bytes (TARGET_PAGE_SIZE).  Page 0 and the top pages of the
\* address space are never mapped.
AddrBits == 4
PageBits == 1
AddrSpace == 2 ^ AddrBits
TARGET_PAGE_SIZE == 2 ^ PageBits
Addrs == 0..(AddrSpace - 1)

\* Unsigned arithmetic wraps.
u64(x) == x % AddrSpace

pageOf(addr) == addr \div TARGET_PAGE_SIZE

\* rsp & page_mask, with page_mask = ~(TARGET_PAGE_SIZE - 1).
pageAlign(addr) == addr - (addr % TARGET_PAGE_SIZE)

\* MemoryManager::isMapped(virtAddr): the address has a host address.
isMapped(addr) == pageOf(addr) \in mappedPages

\* MemoryRegion {start, end, prot}.
MemoryRegion(start, end, prot) == [start |-> start, end |-> end, prot |-> prot]

\* MemoryRegionCmp: regions are ordered by start address.
MemoryRegionCmp(a, b) == a.start < b.start

\* std::set::insert under MemoryRegionCmp, the set kept as its sorted
\* sequence: an element equivalent to r (neither orders before the other)
\* keeps r out; otherwise r goes after the elements ordered before it.
setInsert(ret, r) ==
    IF \E i \in 1..Len(ret) : ~MemoryRegionCmp(ret[i], r) /\ ~MemoryRegionCmp(r, ret[i])
    THEN ret
    ELSE LET k == Cardinality({i \in 1..Len(ret) : MemoryRegionCmp(ret[i], r)})
         IN  SubSeq(ret, 1, k) \o <<r>> \o SubSeq(ret, k + 1, Len(ret))

RECURSIVE iterateRegions(_, _, _)
\* m_map->iterateRegions(state, pid, callback): the callback inserts every
\* reported region, from the i-th on.
iterateRegions(ret, regions, i) ==
    IF i > Len(regions) THEN ret
    ELSE iterateRegions(setInsert(ret, regions[i]), regions, i + 1)

RECURSIVE probeDown(_)
\* while (isMapped(stackBegin)) stackBegin -= TARGET_PAGE_SIZE;
probeDown(a) == IF isMapped(a) THEN probeDown(u64(a - TARGET_PAGE_SIZE)) ELSE a

RECURSIVE probeUp(_)
\* while (isMapped(stackEnd)) stackEnd += TARGET_PAGE_SIZE;
probeUp(a) == IF isMapped(a) THEN probeUp(u64(a + TARGET_PAGE_SIZE)) ELSE a

\* stackBegin and stackEnd as lines 162-172 leave them.
stackBeginOf(sp) == u64(probeDown(pageAlign(sp)) + TARGET_PAGE_SIZE)
stackEndOf(sp) == u64(probeUp(pageAlign(sp)) - TARGET_PAGE_SIZE)

\* MemoryManager::getMapInfo(pid): the reported regions and the stack region
\* found by probing; `stack` is the region handed to the last insert.
getMapInfo ==
    LET stack == MemoryRegion(stackBeginOf(rsp), stackEndOf(rsp), "rw")
    IN  [ret |-> setInsert(iterateRegions(<<>>, engineRegions, 1), stack),
         stack |-> stack]

\* ---- inputs of getMapInfo
\* The region lists the engine reports: page-aligned, pairwise disjoint,
\* in address order.
PageIntervals(n) == {iv \in (1..n) \X (2..(n + 1)) : iv[1] < iv[2]}
Disjoint(S) == \A x \in S, y \in S : x # y => (x[2] <= y[1] \/ y[2] <= x[1])
RECURSIVE InAddressOrder(_)
InAddressOrder(S) ==
    IF S = {} THEN <<>>
    ELSE LET lo == CHOOSE x \in S : \A y \in S : x[1] <= y[1]
         IN  <<MemoryRegion(lo[1] * TARGET_PAGE_SIZE, lo[2] * TARGET_PAGE_SIZE, "r")>>
                \o InAddressOrder(S \ {lo})
RegionLists(n) == {InAddressOrder(S) : S \in {T \in SUBSET PageIntervals(n) : Disjoint(T)}}

\* The parts of the constraint applier, as constructed.
RopIdle ==
    /\ m_currentState = NoState
    /\ m_currentConstraintGroup = <<>>
    /\ constraintsQueue = [s \in States |-> <<>>]
    /\ regs = [s \in States |-> [r \in Registers |-> InitialExpr]]
    /\ memory = [s \in States |-> [x \in MemAddrs |-> InitialExpr]]
    /\ injections = [s \in States |-> <<>>]
    /\ terminated = [s \in States |-> FALSE]
    /\ userSpecifiedElfBase = 0
    /\ crashed = FALSE
    /\ event = [handler |-> "initialize", state |-> NoState, reason |-> "",
                trace |-> <<>>, applyOn |-> <<>>, genOk |-> FALSE, seq |-> 0]
    /\ addedSinceCommit = <<>>
    /\ committed = [s \in States |-> <<>>]
    /\ nAdds = 0
    /\ nCommits = 0

\* The call getMapInfo(pid) on the selected state.
callGetMapInfo ==
    /\ call = <<>>
    /\ call' = <<"getMapInfo">>
    /\ result' = getMapInfo
    /\ UNCHANGED <<engineRegions, mappedPages, memBytes, rsp>>

InitMap ==
    /\ RopIdle
    /\ DispatchIdle
    /\ GenIdle
    /\ TechIdle
    /\ GhostIdle
    /\ engineRegions \in RegionLists(MapPages)
    /\ mappedPages \in SUBSET (1..MapPages)
    /\ memBytes = <<>>
    /\ rsp \in {p * TARGET_PAGE_SIZE + 1 : p \in 1..MapPages}
    /\ call = <<>>
    /\ result = <<>>

NextMap == callGetMapInfo /\ UNCHANGED <<ropVars, dispatchVars, genVars, techVars, ghostVars>>

SpecMap == InitMap /\ [][NextMap]_vars

\* Two regions share an address (half-open ranges).
Overlap(a, b) == a.start < b.end /\ b.start < a.end

\* The maximal run of mapped pages around page p.
PageRun(p) ==
    {q \in 0..(AddrSpace \div TARGET_PAGE_SIZE - 1) :
        \A x \in 0..(AddrSpace \div TARGET_PAGE_SIZE - 1) :
            ((q <= x /\ x <= p) \/ (p <= x /\ x <= q)) => x \in mappedPages}

\* C13: the region set getMapInfo returns, stack region included, is ordered
\* by start address and holds no two overlapping regions, whatever regions
\* the engine reports and wherever the stack pointer is.
C13_MapInfoSortedDisjoint ==
    call = <<"getMapInfo">> =>
        \A i \in 1..Len(result.ret), j \in 1..Len(result.ret) :
            i < j => /\ result.ret[i].start < result.ret[j].start
                     /\ ~Overlap(result.ret[i], result.ret[j])

\* C14: with the stack pointer in a mapped page, the synthesized stack
\* region starts page-aligned, is not empty, and as [start, end) covers
\* exactly the maximal run of mapped pages around the stack pointer's page.
C14_StackRegionIsMappedRun ==
    (call = <<"getMapInfo">> /\ isMapped(rsp)) =>
        /\ result.stack.start % TARGET_PAGE_SIZE = 0
        /\ result.stack.start < result.stack.end
        /\ {a \in Addrs : result.stack.start <= a /\ a < result.stack.end}
              = {a \in Addrs : pageOf(a) \in PageRun(pageOf(rsp))}

\* ------------------------------------------------ readConcrete and search
\* The pages 1..MemPages may be mapped when memory is read or searched, a
\* read asks for at most MaxRead bytes, a needle has at most MaxNeedle.
MemPages == 2
MaxRead == 3
MaxNeedle == 2

\* A byte of guest memory is <<v>> when concrete and <<>> when symbolic.
ByteValues == {0, 1}
SymbolicByte == <<>>
MemoryBytes == {<<v>> : v \in ByteValues} \cup {SymbolicByte}

\* MemoryManager::isSymbolic(virtAddr, 1).
isSymbolic(virtAddr) == memBytes[virtAddr] = SymbolicByte

\* mem()->read(virtAddr, buf, 1) succeeds on an accessible page.
canRead(virtAddr) == pageOf(virtAddr) \in mappedPages

\* std::vector<uint8_t> ret(size).
zeroFilled(size) == [i \in 1..size |-> 0]

RECURSIVE readLoop_failOnSymbolic(_, _, _, _)
\* A loop that gives up on a symbolic byte as on a fault.
readLoop_failOnSymbolic(ret, virtAddr, size, i) ==
    IF i >= size THEN ret
    ELSE IF isSymbolic(u64(virtAddr + i)) \/ ~canRead(u64(virtAddr + i)) THEN <<>>
    ELSE readLoop_failOnSymbolic([ret EXCEPT ![i + 1] = memBytes[u64(virtAddr + i)][1]],
                                 virtAddr, size, i + 1)

RECURSIVE readLoop(_, _, _, _)
\* The byte-by-byte loop of readConcrete from index i: symbolic bytes are
\* skipped, a failed read clears the result and stops.
readLoop(ret, virtAddr, size, i) ==
    IF i >= size THEN ret
    ELSE IF isSymbolic(u64(virtAddr + i)) THEN readLoop(ret, virtAddr, size, i + 1)
    ELSE IF ~canRead(u64(virtAddr + i)) THEN <<>>
    ELSE readLoop([ret EXCEPT ![i + 1] = memBytes[u64(virtAddr + i)][1]],
                  virtAddr, size, i + 1)

\* MemoryManager::readConcrete(virtAddr, size, concretize).  With concretize
\* the engine reads the whole range, giving symbolic bytes the values cz
\* the solver picks, and fails on an inaccessible byte.
readConcrete(virtAddr, size, concretize, cz) ==
    IF concretize
    THEN IF \E i \in 0..(size - 1) : ~canRead(u64(virtAddr + i))
         THEN <<>>
         ELSE [i \in 1..size |->
                  IF isSymbolic(u64(virtAddr + i - 1)) THEN cz[i]
                  ELSE memBytes[u64(virtAddr + i - 1)][1]]
    ELSE readLoop(zeroFilled(size), virtAddr, size, 0)

\* sizeof(uint64_t).
sizeofValue == 8

RECURSIVE bytesOf(_, _)
\* The n low bytes of value, least significant first (x86-64 byte order).
bytesOf(value, n) ==
    IF n = 0 THEN <<>> ELSE <<value % 256>> \o bytesOf(value \div 256, n - 1)

RECURSIVE memWrite(_, _, _, _)
\* mem()->write(virtAddr, buf, size) from the i-th byte on: the engine
\* writes until it meets an address that is not accessible, and reports
\* whether it wrote everything.
memWrite(m, virtAddr, bytes, i) ==
    IF i > Len(bytes) THEN [mem |-> m, success |-> TRUE]
    ELSE IF ~canRead(u64(virtAddr + i - 1)) THEN [mem |-> m, success |-> FALSE]
    ELSE memWrite([m EXCEPT ![u64(virtAddr + i - 1)] = bytes[i]], virtAddr, bytes, i + 1)

\* MemoryManager::writeConcrete(virtAddr, value): the eight bytes of value.
writeConcrete(virtAddr, value) ==
    memWrite(memBytes, virtAddr,
             [i \in 1..sizeofValue |-> <<bytesOf(value, sizeofValue)[i]>>], 1)

\* MemoryManager::writeSymbolic(virtAddr, value), value an expression of
\* `width` bytes: the bytes it covers become symbolic.
writeSymbolic(virtAddr, width) ==
    memWrite(memBytes, virtAddr, [i \in 1..width |-> SymbolicByte], 1)

RECURSIVE kmp(_, _, _)
\* kmp(haystack, needle): the offsets, from offset k on and in increasing
\* order, at which needle occurs in haystack.
kmp(haystack, needle, k) ==
    IF k + Len(needle) > Len(haystack) THEN <<>>
    ELSE (IF SubSeq(haystack, k + 1, k + Len(needle)) = needle THEN <<k>> ELSE <<>>)
            \o kmp(haystack, needle, k + 1)

RECURSIVE skipInaccessible(_, _)
\* while (!isMapped(region.start) && region.start < region.end) ++region.start;
skipInaccessible(start, end) ==
    IF ~isMapped(start) /\ start < end THEN skipInaccessible(u64(start + 1), end)
    ELSE start

\* The body of search's loop for one region: the addresses it appends.
searchRegion(region, needle) ==
    LET start == skipInaccessible(region.start, region.end)
    IN  IF start >= region.end THEN <<>>
        ELSE LET haystack == readConcrete(start, region.end - start, FALSE, <<>>)
                 localResult == kmp(haystack, needle, 0)
             IN  [x \in 1..Len(localResult) |-> localResult[x] + start]

RECURSIVE searchFrom(_, _, _)
\* search's loop over the regions of getMapInfo, from the i-th on.
searchFrom(regions, needle, i) ==
    IF i > Len(regions) THEN <<>>
    ELSE searchRegion(regions[i], needle) \o searchFrom(regions, needle, i + 1)

\* MemoryManager::search(needle).
search(needle) == searchFrom(getMapInfo.ret, needle, 1)

\* ---- inputs
\* Memory contents: the bytes of inaccessible pages do not exist (held at 0).
Memories(mapped) ==
    {[a \in Addrs |-> IF pageOf(a) \in mapped THEN f[a] ELSE <<0>>] :
        f \in [{a \in Addrs : pageOf(a) \in mapped} -> MemoryBytes]}
Needles == UNION {[1..n -> ByteValues] : n \in 1..MaxNeedle}

\* The values and expression widths written in a run.
WriteValues == {0, 1, 257}
WriteWidths == {1, 2}

\* No call has returned a result yet, or the last call was a write.
afterWrite ==
    IF call = <<>> THEN TRUE ELSE call[1] \in {"writeConcrete", "writeSymbolic"}

\* The call writeConcrete(virtAddr, value) on the selected state.
callWriteConcrete(virtAddr, value) ==
    /\ afterWrite
    /\ \E r \in {writeConcrete(virtAddr, value)} :
          /\ memBytes' = r.mem
          /\ call' = <<"writeConcrete", virtAddr, value>>
          /\ result' = <<r.success>>
    /\ UNCHANGED <<engineRegions, mappedPages, rsp>>

\* The call writeSymbolic(virtAddr, value) on the selected state.
callWriteSymbolic(virtAddr, width) ==
    /\ afterWrite
    /\ \E r \in {writeSymbolic(virtAddr, width)} :
          /\ memBytes' = r.mem
          /\ call' = <<"writeSymbolic", virtAddr, width>>
          /\ result' = <<r.success>>
    /\ UNCHANGED <<engineRegions, mappedPages, rsp>>

callReadConcrete(virtAddr, size, concretize, cz) ==
    /\ afterWrite
    /\ call' = <<"readConcrete", virtAddr, size, concretize>>
    /\ result' = readConcrete(virtAddr, size, concretize, cz)
    /\ UNCHANGED <<engineRegions, mappedPages, memBytes, rsp>>

callSearch(needle) ==
    /\ afterWrite
    /\ call' = <<"search", needle>>
    /\ result' = search(needle)
    /\ UNCHANGED <<engineRegions, mappedPages, memBytes, rsp>>

InitRead ==
    /\ RopIdle
    /\ DispatchIdle
    /\ GenIdle
    /\ TechIdle
    /\ GhostIdle
    /\ engineRegions = <<>>
    /\ mappedPages \in SUBSET (1..MemPages)
    /\ memBytes \in Memories(mappedPages)
    /\ rsp = 0
    /\ call = <<>>
    /\ result = <<>>

NextRead ==
    \/ /\ \E virtAddr \in TARGET_PAGE_SIZE..((MemPages + 1) * TARGET_PAGE_SIZE - 1),
             size \in 0..MaxRead, concretize \in BOOLEAN :
             \E cz \in IF concretize THEN [1..size -> ByteValues] ELSE {<<>>} :
                 callReadConcrete(virtAddr, size, concretize, cz)
       /\ UNCHANGED <<ropVars, dispatchVars, genVars, techVars, ghostVars>>
    \/ /\ \E virtAddr \in TARGET_PAGE_SIZE..((MemPages + 1) * TARGET_PAGE_SIZE - 1),
             value \in WriteValues : callWriteConcrete(virtAddr, value)
       /\ UNCHANGED <<ropVars, dispatchVars, genVars, techVars, ghostVars>>
    \/ /\ \E virtAddr \in TARGET_PAGE_SIZE..((MemPages + 1) * TARGET_PAGE_SIZE - 1),
             width \in WriteWidths : callWriteSymbolic(virtAddr, width)
       /\ UNCHANGED <<ropVars, dispatchVars, genVars, techVars, ghostVars>>

SpecRead == InitRead /\ [][NextRead]_vars

InitSearch ==
    /\ RopIdle
    /\ DispatchIdle
    /\ GenIdle
    /\ TechIdle
    /\ GhostIdle
    /\ engineRegions \in RegionLists(MemPages)
    /\ mappedPages \in SUBSET (1..MemPages)
    /\ memBytes \in Memories(mappedPages)
    /\ rsp \in {p * TARGET_PAGE_SIZE + 1 : p \in 1..MemPages}
    /\ call = <<>>
    /\ result = <<>>

NextSearch ==
    \/ /\ \E needle \in Needles : callSearch(needle)
       /\ UNCHANGED <<ropVars, dispatchVars, genVars, techVars, ghostVars>>
    \/ /\ \E virtAddr \in TARGET_PAGE_SIZE..((MemPages + 1) * TARGET_PAGE_SIZE - 1),
             value \in WriteValues : callWriteConcrete(virtAddr, value)
       /\ UNCHANGED <<ropVars, dispatchVars, genVars, techVars, ghostVars>>
    \/ /\ \E virtAddr \in TARGET_PAGE_SIZE..((MemPages + 1) * TARGET_PAGE_SIZE - 1),
             width \in WriteWidths : callWriteSymbolic(virtAddr, width)
       /\ UNCHANGED <<ropVars, dispatchVars, genVars, techVars, ghostVars>>

SpecSearch == InitSearch /\ [][NextSearch]_vars

\* The needle stands at address a: accessible concrete bytes equal to it.
NeedleAt(needle, a) ==
    \A j \in 1..Len(needle) :
        /\ canRead(u64(a + j - 1))
        /\ memBytes[u64(a + j - 1)] = <<needle[j]>>

\* The regions search scans.
ScannedRegions == {getMapInfo.ret[i] : i \in 1..Len(getMapInfo.ret)}

\* C15: search is complete within a region: a needle standing at offset k of
\* a scanned region puts region.start + k in the result, also when the
\* region's first bytes are inaccessible and other bytes of it are symbolic
\* or unreadable.
C15_SearchCompleteInRegion ==
    (Len(call) = 2 /\ call[1] = "search") =>
        \A region \in ScannedRegions : \A a \in Addrs :
            (/\ region.start <= a
             /\ a + Len(call[2]) <= region.end
             /\ NeedleAt(call[2], a))
            => \E x \in 1..Len(result) : result[x] = a

\* C16: search is sound: every address it returns lies in a scanned region
\* whose accessible concrete bytes at that address equal the needle, so a
\* region without the needle, symbolic bytes or not, contributes nothing.
C16_SearchSound ==
    (Len(call) = 2 /\ call[1] = "search") =>
        \A x \in 1..Len(result) :
            /\ \E region \in ScannedRegions :
                  region.start <= result[x] /\ result[x] + Len(call[2]) <= region.end
            /\ NeedleAt(call[2], result[x])

\* A non-symbolic byte of the range [virtAddr, virtAddr + size) cannot be read.
Faults(virtAddr, size) ==
    \E i \in 0..(size - 1) :
        ~isSymbolic(u64(virtAddr + i)) /\ ~canRead(u64(virtAddr + i))

\* C17: readConcrete(addr, size, concretize = false) never fails because of
\* symbolic bytes: when no non-symbolic byte faults it returns exactly size
\* bytes holding memory's value at every non-symbolic position, and when a
\* non-symbolic read faults the result is empty.
C17_ReadConcreteSkipsSymbolic ==
    (Len(call) = 4 /\ call[1] = "readConcrete" /\ ~call[4]) =>
        IF Faults(call[2], call[3])
        THEN result = <<>>
        ELSE /\ Len(result) = call[3]
             /\ \A i \in 0..(call[3] - 1) :
                   ~isSymbolic(u64(call[2] + i))
                      => <<result[i + 1]>> = memBytes[u64(call[2] + i)]

\* A read over a symbolic byte followed by a concrete 1 came back whole.
C17_ReadAcrossSymbolicByte ==
    /\ Len(call) = 4 /\ call[1] = "readConcrete" /\ ~call[4]
    /\ call[3] >= 2
    /\ isSymbolic(call[2])
    /\ memBytes[u64(call[2] + 1)] = <<1>>
    /\ Len(result) = call[3]
    /\ result[2] = 1

\* ============================================ exploit script generation
\* The longest timeline the generator is given.
MaxTimeline == 3

\* IOStates::SleepStateInfo, the third kind of timeline record.
SleepStateInfo(sec) == [kind |-> "sleep", sec |-> sec]

\* i >= x for a size_t i and a uint32_t field x.
u32Ge(i, x) == x # UINT32_NEG1 /\ i >= x

\* ---- the Exploit sink
\* A line of the script: what it does, its text and its numbers; a payload
\* line also has the parts of the payload.
Line(op, text, args) == [op |-> op, text |-> text, args |-> args, parts |-> <<>>]
BlankLine == Line("", "", <<>>)

\* A part of a rop payload.
Part(form, text, args) == [form |-> form, text |-> text, args |-> args]

\* Exploit::writeline(line), writeline() for an empty line.
writeline(e, line) == [e EXCEPT !.lines = Append(@, line)]

RECURSIVE writelines(_, _)
\* Exploit::writelines({...}).
writelines(e, ls) ==
    IF ls = <<>> THEN e ELSE writelines(writeline(e, Head(ls)), Tail(ls))

\* Exploit::appendRopPayload(s): s joins the pending payload.
appendRopPayload(e, s) == [e EXCEPT !.ropPayload = Append(@, s)]

\* Exploit::flushRopPayload(): the pending payload is written as one
\* payload line and cleared.
flushRopPayload(e) ==
    [lines |-> Append(e.lines, [Line("payload", "", <<>>) EXCEPT !.parts = e.ropPayload]),
     ropPayload |-> <<>>]

\* ---- InputStream over stage1
getNrBytesRead(is) == is.nrBytesRead
getNrBytesSkipped(is) == is.nrBytesSkipped
getNrBytesConsumed(is) == is.nrBytesRead + is.nrBytesSkipped

\* A read that always starts at the first byte of the stream.
InputStream_read_rewound(is, n) ==
    [bytes |-> SubSeq(is.buf, 1, n),
     is |-> [is EXCEPT !.nrBytesRead = @ + n]]

\* InputStream::read(n): the next n bytes after those consumed so far.
InputStream_read(is, n) ==
    [bytes |-> SubSeq(is.buf, getNrBytesConsumed(is) + 1, getNrBytesConsumed(is) + n),
     is |-> [is EXCEPT !.nrBytesRead = @ + n]]

\* InputStream::skip(n): the next n bytes are passed over.
InputStream_skip(is, n) == [is EXCEPT !.nrBytesSkipped = @ + n]

\* evaluate<std::string>(e): the script text of an expression.
evaluate(e) == Part("expr", e, <<>>)

\* evaluate<std::string>(ByteVectorExpr::create(bytes)).
evaluateBytes(bytes) == Part("bytes", "", bytes)

\* ---- IOStateInfoVisitor
\* A skip test that does not spare the injection point.
shouldSkipInputState_any(modState, i) ==
    u32Ge(i, modState.lastInputStateInfoIdxBeforeFirstSymbolicRip)

\* IOStateInfoVisitor::shouldSkipInputState(), after its assertion.
shouldSkipInputState(modState, i) ==
    /\ i # modState.lastInputStateInfoIdx
    /\ u32Ge(i, modState.lastInputStateInfoIdxBeforeFirstSymbolicRip)

\* assert(-1 != modState.lastInputStateInfoIdxBeforeFirstSymbolicRip).
assertRecorded(modState) ==
    modState.lastInputStateInfoIdxBeforeFirstSymbolicRip # UINT32_NEG1

\* IOStateInfoVisitor::handleStage1: the first fragment, as the read bytes
\* when the target has neither canary nor PIE (the first fragment must then
\* hold exactly one expression: assert(ropChain[0].size() == 1) stops the
\* generation before anything is read), else as an expression solved when
\* the exploit runs, sliced by the stream's counters.
handleStage1(e, is, checksec, ropChain, stateInfo) ==
    IF ~checksec.hasCanary /\ ~checksec.hasPIE
    THEN IF Len(ropChain[1]) # 1
         THEN [exploit |-> e, inputStream |-> is, aborted |-> TRUE]
         ELSE LET r == InputStream_read(is, stateInfo.offset)
              IN  [exploit |-> flushRopPayload(appendRopPayload(e, evaluateBytes(r.bytes))),
                   inputStream |-> r.is, aborted |-> FALSE]
    ELSE LET s == Part("solve_stage1", "modState",
                       IF getNrBytesSkipped(is) # 0
                       THEN <<getNrBytesRead(is), getNrBytesConsumed(is)>>
                       ELSE <<getNrBytesRead(is)>>)
         IN  [exploit |-> flushRopPayload(appendRopPayload(e, s)),
              inputStream |-> is, aborted |-> FALSE]

RECURSIVE appendExprs(_, _)
\* for (const ref<Expr> &e : ropChain[j]) exploit.appendRopPayload(...).
appendExprs(e, fragment) ==
    IF fragment = <<>> THEN e
    ELSE appendExprs(appendRopPayload(e, evaluate(Head(fragment))), Tail(fragment))

RECURSIVE appendFragments_all(_, _, _)
\* A loop that starts at the fragment before j.
appendFragments_all(e, ropChain, j) ==
    IF j > Len(ropChain) THEN e
    ELSE appendFragments_all(flushRopPayload(appendExprs(e, ropChain[j])), ropChain, j + 1)

RECURSIVE appendFragments(_, _, _)
\* for (size_t j = 1; j < ropChain.size(); j++): the fragment ropChain[j]
\* (here at position j + 1) is appended and flushed.
appendFragments(e, ropChain, j) ==
    IF j >= Len(ropChain) THEN e
    ELSE appendFragments(flushRopPayload(appendExprs(e, ropChain[j + 1])), ropChain, j + 1)

\* IOStateInfoVisitor::operator()(const InputStateInfo &).
visitInputStateInfo(e, is, args, i, stateInfo) ==
    IF shouldSkipInputState(args.modState, i)
    THEN [exploit |-> writeline(e, Line("#", "input state, skipped", <<stateInfo.offset>>)),
          inputStream |-> InputStream_skip(is, stateInfo.offset),
          aborted |-> FALSE]
    ELSE LET e1 == writeline(e, Line("#", "input state", <<stateInfo.offset>>))
         IN  IF i # args.modState.lastInputStateInfoIdx
             THEN LET r == InputStream_read(is, stateInfo.offset)
                  IN  [exploit |-> writeline(e1, Line("proc.send", "", r.bytes)),
                       inputStream |-> r.is, aborted |-> FALSE]
             ELSE LET e2 == writeline(e1, Line("#", "input state (rop chain begin)", <<>>))
                      s1 == handleStage1(e2, is, args.checksec, args.ropChain, stateInfo)
                  IN  IF s1.aborted THEN s1
                      ELSE [exploit |-> appendFragments(s1.exploit, args.ropChain, 1),
                            inputStream |-> s1.inputStream, aborted |-> FALSE]

\* A canary extraction that reads as many bytes as an address leak.
canaryLines_sixBytes(stateInfo) ==
    <<Line("proc.recv", "", <<stateInfo.bufIndex>>),
      Line("canary = u64(b'\\x00' + proc.recv(n))", "", <<6>>),
      Line("log.info", "leaked canary", <<>>)>>

\* An address extraction that keeps the leaked address as the base.
elfLeakLines_noOffset(stateInfo) ==
    <<Line("proc.recv", "", <<stateInfo.bufIndex>>),
      Line("elf_leak = u64(proc.recv(n).ljust(8, b'\\x00'))", "", <<6>>),
      Line("elf_base = elf_leak - n", "", <<0>>),
      Line("log.info", "leaked elf_base", <<>>)>>

\* The lines that extract a leaked canary: 7 bytes behind a zero byte.
canaryLines(stateInfo) ==
    <<Line("proc.recv", "", <<stateInfo.bufIndex>>),
      Line("canary = u64(b'\\x00' + proc.recv(n))", "", <<7>>),
      Line("log.info", "leaked canary", <<>>)>>

\* The lines that extract any other leak: 6 bytes padded to 8, less the
\* static offset.
elfLeakLines(stateInfo) ==
    <<Line("proc.recv", "", <<stateInfo.bufIndex>>),
      Line("elf_leak = u64(proc.recv(n).ljust(8, b'\\x00'))", "", <<6>>),
      Line("elf_base = elf_leak - n", "", <<stateInfo.baseOffset>>),
      Line("log.info", "leaked elf_base", <<>>)>>

\* IOStateInfoVisitor::operator()(const OutputStateInfo &); the record's
\* flag is named valid in the header and isInteresting in the generator.
visitOutputStateInfo(e, stateInfo) ==
    LET e1 == writeline(e, Line("#", "output state", <<>>))
    IN  IF ~stateInfo.valid
        THEN writeline(e1, Line("proc.recvrepeat", "", <<>>))
        ELSE LET e2 == writeline(e1, Line("#", "leaking: " \o stateInfo.leakType, <<>>))
             IN  IF stateInfo.leakType = "CANARY"
                 THEN writelines(e2, canaryLines(stateInfo))
                 ELSE writelines(e2, elfLeakLines(stateInfo))

\* IOStateInfoVisitor::operator()(const SleepStateInfo &).
visitSleepStateInfo(e, stateInfo) ==
    writeline(writeline(e, Line("#", "sleep state", <<>>)),
              Line("sleep", "", <<stateInfo.sec>>))

\* The record visited next.
currentStateInfo == genArgs.modState.stateInfoList[stateInfoIdx + 1]

\* One iteration of generateMainFunction's loop on a record of the given
\* kind: an empty line, then the visitor for the record's variant.
loopBody(kind) ==
    /\ ~genAborted
    /\ stateInfoIdx < Len(genArgs.modState.stateInfoList)
    /\ currentStateInfo.kind = kind
    /\ UNCHANGED genArgs
    /\ LET e == writeline(exploit, BlankLine)
       IN  CASE kind = "input" ->
                  IF assertRecorded(genArgs.modState)
                  THEN \E r \in {visitInputStateInfo(e, inputStream, genArgs,
                                                     stateInfoIdx, currentStateInfo)} :
                          /\ exploit' = r.exploit
                          /\ inputStream' = r.inputStream
                          /\ stateInfoIdx' = IF r.aborted THEN stateInfoIdx
                                             ELSE stateInfoIdx + 1
                          /\ genAborted' = r.aborted
                  ELSE /\ exploit' = e
                       /\ genAborted' = TRUE
                       /\ UNCHANGED <<inputStream, stateInfoIdx>>
              [] kind = "output" ->
                  /\ exploit' = visitOutputStateInfo(e, currentStateInfo)
                  /\ stateInfoIdx' = stateInfoIdx + 1
                  /\ UNCHANGED <<inputStream, genAborted>>
              [] kind = "sleep" ->
                  /\ exploit' = visitSleepStateInfo(e, currentStateInfo)
                  /\ stateInfoIdx' = stateInfoIdx + 1
                  /\ UNCHANGED <<inputStream, genAborted>>

\* ---- inputs of generateMainFunction
GenStateInfos ==
    {InputStateInfo(1), InputStateInfo(2),
     OutputStateInfo(FALSE, 0, 0, "UNKNOWN"),
     OutputStateInfo(TRUE, 1, 0, "CANARY"),
     OutputStateInfo(TRUE, 0, 3, "CODE"),
     SleepStateInfo(1)}
Timelines == UNION {[1..n -> GenStateInfos] : n \in 0..MaxTimeline}

\* The index the tracker holds in lastInputStateInfoIdx after the first n
\* records: that of the last input state among them, 0 before the first.
lastInputIdxAfter(list, n) ==
    LET S == {k \in 0..(n - 1) : list[k + 1].kind = "input"}
    IN  IF S = {} THEN 0 ELSE CHOOSE k \in S : \A x \in S : x <= k

\* The data of a state whose rip has become symbolic: the timeline, the
\* index of its last input state, and that index as it was at the first
\* symbolic rip, after n of the records.
TrackedStates ==
    UNION {{[IOStatesState EXCEPT
                !.stateInfoList = list,
                !.lastInputStateInfoIdx = lastInputIdxAfter(list, Len(list)),
                !.lastInputStateInfoIdxBeforeFirstSymbolicRip = lastInputIdxAfter(list, n)] :
            n \in 0..Len(list)} : list \in Timelines}

\* Rop chains as the chain builder hands them over: the first fragment holds
\* the stage-1 byte vector alone, which is what handleStage1 asserts.
RopChains ==
    {<<<<"stage1">>>>,
     <<<<"stage1">>, <<"pop_rdi", "binsh">>>>,
     <<<<"stage1">>, <<"pop_rdi">>, <<"system">>>>}

RECURSIVE inputBytes(_)
\* The number of bytes the input states of a timeline consumed.
inputBytes(list) ==
    IF list = <<>> THEN 0
    ELSE (IF Head(list).kind = "input" THEN Head(list).offset ELSE 0) + inputBytes(Tail(list))

\* InputStream inputStream(stage1): stage1 holds one byte per byte the
\* target read, each told apart by its value.
InputStream(stage1) == [buf |-> stage1, nrBytesRead |-> 0, nrBytesSkipped |-> 0]

\* generateMainFunction at the head of its loop.
InitGen ==
    /\ RopIdle
    /\ DispatchIdle
    /\ MemoryIdle
    /\ TechIdle
    /\ GhostIdle
    /\ \E modState \in TrackedStates, ropChain \in RopChains,
          hasCanary \in BOOLEAN, hasPIE \in BOOLEAN :
          /\ genArgs = [modState |-> modState, ropChain |-> ropChain,
                        checksec |-> [hasCanary |-> hasCanary, hasPIE |-> hasPIE]]
          /\ inputStream = InputStream([k \in 1..inputBytes(modState.stateInfoList) |-> k])
    /\ stateInfoIdx = 0
    /\ exploit = [lines |-> <<>>, ropPayload |-> <<>>]
    /\ genAborted = FALSE

NextGen ==
    \/ loopBody("input") /\ UNCHANGED <<ropVars, dispatchVars, memVars, techVars, ghostVars>>
    \/ loopBody("output") /\ UNCHANGED <<ropVars, dispatchVars, memVars, techVars, ghostVars>>
    \/ loopBody("sleep") /\ UNCHANGED <<ropVars, dispatchVars, memVars, techVars, ghostVars>>

SpecGen == InitGen /\ [][NextGen]_vars

\* The timeline and the two indices the generator works from.
Timeline == genArgs.modState.stateInfoList
InjectionIdx == genArgs.modState.lastInputStateInfoIdx
BeforeFirstSymbolicRipIdx == genArgs.modState.lastInputStateInfoIdxBeforeFirstSymbolicRip

\* The lines a step appends to the sink.
NewLines == SubSeq(exploit'.lines, Len(exploit.lines) + 1, Len(exploit'.lines))

\* The texts that may head the block of a record of each variant.
Headers(kind) ==
    CASE kind = "input" -> {"input state", "input state, skipped"}
      [] kind = "output" -> {"output state"}
      [] kind = "sleep" -> {"sleep state"}

\* The step sends bytes to the target: a literal send or a payload.
Sends == \E k \in 1..Len(NewLines) : NewLines[k].op \in {"proc.send", "payload"}

\* The step emits a literal send of the next n bytes of the stream.
LiteralSend(n) ==
    \E k \in 1..Len(NewLines) :
        /\ NewLines[k].op = "proc.send"
        /\ NewLines[k].args = SubSeq(inputStream.buf, getNrBytesConsumed(inputStream) + 1,
                                     getNrBytesConsumed(inputStream) + n)

\* The step emits the injection sequence: the chain's fragments as payloads.
Injection ==
    /\ \E k \in 1..Len(NewLines) : NewLines[k].text = "input state (rop chain begin)"
    /\ Cardinality({k \in 1..Len(NewLines) : NewLines[k].op = "payload"})
          = Len(genArgs.ropChain)
    /\ \A k \in 1..Len(NewLines) : NewLines[k].op # "proc.send"

\* The timeline of the end-to-end scenario: an input state that is not the
\* hijack index, the hijack-index input state, a canary-leak output state.
ScenarioTimeline ==
    /\ Len(Timeline) = 3
    /\ Timeline[1].kind = "input" /\ Timeline[2].kind = "input"
    /\ Timeline[3].kind = "output" /\ Timeline[3].valid /\ Timeline[3].leakType = "CANARY"
    /\ InjectionIdx = 1
    /\ BeforeFirstSymbolicRipIdx = 1

\* C18: the generator walks the timeline once from index 0 to the end: every
\* step takes the next record and appends exactly one block, an empty line
\* followed by lines headed by the record's variant; on the scenario
\* timeline the blocks are a literal send, the injection sequence and a
\* 7-byte canary read, in that order.
C18_OneBlockPerRecordInOrder ==
    [][/\ stateInfoIdx' = stateInfoIdx + 1
       /\ IsPrefix(exploit.lines, exploit'.lines)
       /\ Len(NewLines) >= 2
       /\ NewLines[1] = BlankLine
       /\ \A k \in 2..Len(NewLines) : NewLines[k] # BlankLine
       /\ NewLines[2].op = "#" /\ NewLines[2].text \in Headers(currentStateInfo.kind)
       /\ \A k \in 3..Len(NewLines) : NewLines[k].text \notin
             (Headers("input") \cup Headers("output") \cup Headers("sleep"))
       /\ ScenarioTimeline =>
             /\ stateInfoIdx = 0 => LiteralSend(Timeline[1].offset)
             /\ stateInfoIdx = 1 => Injection
             /\ stateInfoIdx = 2 =>
                   \E k \in 1..Len(NewLines) :
                       NewLines[k] = Line("canary = u64(b'\\x00' + proc.recv(n))", "", <<7>>)
      ]_vars

\* The scenario timeline has been walked to its end.
C18_ScenarioGenerated ==
    /\ ScenarioTimeline
    /\ stateInfoIdx = 3
    /\ Cardinality(Positions(exploit.lines, BlankLine)) = 3

\* C19: every input state whose index is before the injection point
\* (lastInputStateInfoIdx) is emitted as a literal send of the next `offset`
\* bytes of the stage-1 stream, whatever index the tracker recorded at the
\* first symbolic rip.
C19_InputBeforeInjectionIsSent ==
    [][(currentStateInfo.kind = "input" /\ stateInfoIdx < InjectionIdx)
          => LiteralSend(currentStateInfo.offset)]_vars

\* C19, amended: every input state whose index is before the injection
\* point and before the index recorded at the first symbolic rip is emitted
\* as a literal send of the next `offset` bytes of the stage-1 stream; an
\* input state before the injection point whose index is at or after the
\* index recorded at the first symbolic rip is skipped instead: its bytes
\* are consumed without being read and nothing is sent for it.
C19_InputBeforeBothIsSent ==
    [][/\ (/\ currentStateInfo.kind = "input"
           /\ stateInfoIdx < InjectionIdx
           /\ ~u32Ge(stateInfoIdx, BeforeFirstSymbolicRipIdx))
          => LiteralSend(currentStateInfo.offset)
       /\ (/\ currentStateInfo.kind = "input"
           /\ stateInfoIdx < InjectionIdx
           /\ u32Ge(stateInfoIdx, BeforeFirstSymbolicRipIdx))
          => /\ inputStream'.nrBytesSkipped
                   = inputStream.nrBytesSkipped + currentStateInfo.offset
             /\ inputStream'.nrBytesRead = inputStream.nrBytesRead
             /\ \E k \in 1..Len(NewLines) : NewLines[k].text = "input state, skipped"
             /\ ~Sends
      ]_vars

\* Two input states have been sent literally, the second from where the
\* first ended, ahead of an injection point the first symbolic rip preceded.
C19_TwoLiteralSends ==
    /\ stateInfoIdx >= 2
    /\ Timeline[1].kind = "input" /\ Timeline[2].kind = "input"
    /\ InjectionIdx = 2 /\ BeforeFirstSymbolicRipIdx = 2
    /\ Cardinality({k \in 1..Len(exploit.lines) : exploit.lines[k].op = "proc.send"}) = 2
    /\ inputStream.nrBytesRead = Timeline[1].offset + Timeline[2].offset

\* C20: an input state after the hijack point (the index recorded at the
\* first symbolic rip) and before the tracker's last input index is skipped:
\* exactly its byte count is consumed from the stream and nothing is sent for
\* it; the input state at the injection point is never skipped.
C20_ReentryInputsSkipped ==
    [][/\ (/\ currentStateInfo.kind = "input"
           /\ BeforeFirstSymbolicRipIdx < stateInfoIdx
           /\ stateInfoIdx < InjectionIdx)
          => /\ getNrBytesConsumed(inputStream')
                   = getNrBytesConsumed(inputStream) + currentStateInfo.offset
             /\ inputStream'.nrBytesRead = inputStream.nrBytesRead
             /\ ~Sends
       /\ (currentStateInfo.kind = "input" /\ stateInfoIdx = InjectionIdx)
          => /\ inputStream'.nrBytesSkipped = inputStream.nrBytesSkipped
             /\ \A k \in 1..Len(NewLines) : NewLines[k].text # "input state, skipped"
             /\ Sends
      ]_vars

\* An input state between the two indices has been skipped and the walk has
\* passed the injection point.
C20_SkippedThenInjected ==
    /\ Len(Timeline) = 3
    /\ \A k \in 1..3 : Timeline[k].kind = "input"
    /\ BeforeFirstSymbolicRipIdx = 0 /\ InjectionIdx = 2
    /\ stateInfoIdx = 3
    /\ inputStream.nrBytesSkipped = Timeline[1].offset + Timeline[2].offset

\* ---- output states alone
\* IOStates::LeakType, without the end marker LAST.
LeakTypes == {"UNKNOWN", "CODE", "LIBC", "HEAP", "STACK", "CANARY"}

\* The values bufIndex and baseOffset are drawn from.
BufIndexes == 0..2
BaseOffsets == {0, 3}

\* Output state records of every leak type, leaking or not.
OutputStateInfos ==
    {OutputStateInfo(valid, bufIndex, baseOffset, leakType) :
        valid \in BOOLEAN, bufIndex \in BufIndexes,
        baseOffset \in BaseOffsets, leakType \in LeakTypes}

\* generateMainFunction at the head of its loop, over a timeline of one or
\* two output states.
InitOutput ==
    /\ RopIdle
    /\ DispatchIdle
    /\ MemoryIdle
    /\ TechIdle
    /\ GhostIdle
    /\ \E list \in UNION {[1..n -> OutputStateInfos] : n \in 1..2} :
          genArgs = [modState |-> [IOStatesState EXCEPT
                                      !.stateInfoList = list,
                                      !.lastInputStateInfoIdxBeforeFirstSymbolicRip = 0],
                     ropChain |-> <<<<"stage1">>>>,
                     checksec |-> [hasCanary |-> TRUE, hasPIE |-> TRUE]]
    /\ inputStream = InputStream(<<>>)
    /\ stateInfoIdx = 0
    /\ exploit = [lines |-> <<>>, ropPayload |-> <<>>]
    /\ genAborted = FALSE

NextOutput == loopBody("output") /\ UNCHANGED <<ropVars, dispatchVars, memVars, techVars, ghostVars>>

SpecOutput == InitOutput /\ [][NextOutput]_vars

\* The new lines with the given operation.
NewLinesOf(op) == {k \in 1..Len(NewLines) : NewLines[k].op = op}

\* The operations of the script's leak extractions.
CanaryOp == "canary = u64(b'\\x00' + proc.recv(n))"
ElfLeakOp == "elf_leak = u64(proc.recv(n).ljust(8, b'\\x00'))"
ElfBaseOp == "elf_base = elf_leak - n"

\* C21: for an output state the generator emits exactly one of: a drain
\* (recvrepeat) when the state is not leaking; a canary extraction reading 7
\* bytes behind a zero byte when the leak type is CANARY; for every other
\* leak type an extraction reading 6 bytes, zero-padded, less the record's
\* base offset.  A state that is not leaking gets no extraction.
C21_OutputStateEmission ==
    [][currentStateInfo.kind = "output" =>
          LET drains == Cardinality(NewLinesOf("proc.recvrepeat"))
              canaries == NewLinesOf(CanaryOp)
              leaks == NewLinesOf(ElfLeakOp)
              bases == NewLinesOf(ElfBaseOp)
          IN  IF ~currentStateInfo.valid
              THEN drains = 1 /\ canaries = {} /\ leaks = {} /\ bases = {}
              ELSE IF currentStateInfo.leakType = "CANARY"
              THEN /\ drains = 0 /\ leaks = {} /\ bases = {}
                   /\ Cardinality(canaries) = 1
                   /\ \A k \in canaries : NewLines[k].args = <<7>>
              ELSE /\ drains = 0 /\ canaries = {}
                   /\ Cardinality(leaks) = 1 /\ Cardinality(bases) = 1
                   /\ \A k \in leaks : NewLines[k].args = <<6>>
                   /\ \A k \in bases : NewLines[k].args = <<currentStateInfo.baseOffset>>
      ]_vars

\* A leaking LIBC output state with a base offset and a CANARY output state
\* that is not leaking have both been emitted.
C21_LeakAndDrainEmitted ==
    /\ stateInfoIdx = 2
    /\ Timeline[1].kind = "output" /\ Timeline[1].valid
    /\ Timeline[1].leakType = "LIBC" /\ Timeline[1].baseOffset = 3
    /\ Timeline[2].kind = "output" /\ ~Timeline[2].valid /\ Timeline[2].leakType = "CANARY"
    /\ \E k \in 1..Len(exploit.lines) : exploit.lines[k] = Line(ElfBaseOp, "", <<3>>)
    /\ \E k \in 1..Len(exploit.lines) : exploit.lines[k].op = "proc.recvrepeat"

\* A payload line.
IsPayload(line) == line.op = "payload"

\* C22: at the input state of the injection point the first fragment is
\* emitted as the bytes read from the stream exactly when the target has
\* neither canary nor PIE, and as an expression solved at run time
\* otherwise; then the fragments 1 to the last follow, each once, in chain
\* order, each flushed as a payload of its own.  No other record emits a
\* payload.
C22_ChainAtInjectionPointOnly ==
    [][LET payloads == SelectSeq(NewLines, IsPayload)
           ropChain == genArgs.ropChain
       IN  IF currentStateInfo.kind = "input" /\ stateInfoIdx = InjectionIdx
           THEN /\ Len(payloads) = Len(ropChain)
                /\ Len(payloads[1].parts) = 1
                /\ IF ~genArgs.checksec.hasCanary /\ ~genArgs.checksec.hasPIE
                   THEN payloads[1].parts[1] =
                           Part("bytes", "",
                                SubSeq(inputStream.buf, getNrBytesConsumed(inputStream) + 1,
                                       getNrBytesConsumed(inputStream) + currentStateInfo.offset))
                   ELSE payloads[1].parts[1].form = "solve_stage1"
                /\ \A j \in 2..Len(ropChain) :
                      payloads[j].parts = [k \in 1..Len(ropChain[j]) |-> evaluate(ropChain[j][k])]
           ELSE payloads = <<>>
      ]_vars

\* A chain of three fragments has been injected for a target with PIE, after
\* an earlier input state.
C22_ThreeFragmentsInjected ==
    /\ InjectionIdx = 1
    /\ stateInfoIdx >= 2
    /\ Timeline[1].kind = "input" /\ Timeline[2].kind = "input"
    /\ Len(genArgs.ropChain) = 3
    /\ genArgs.checksec.hasPIE
    /\ Len(SelectSeq(exploit.lines, IsPayload)) = 3

\* ================================================ the Ret2syscall technique
\* The longest instruction list of libc's __read.
MaxInstrs == 3

\* ---- expressions
\* ConstantExpr::create(v, Expr::Int64).
ConstantExpr64(v) == [k |-> "const", v |-> v, width |-> 64]

\* BaseOffsetExpr::create<BaseType::...>(elf, name): an address relative to a
\* base known when the exploit runs.
BaseOffsetExpr(baseType, name) == [k |-> "baseoffset", baseType |-> baseType, v |-> name]

\* ByteVectorExpr::create(bytes).
ByteVectorExpr(bytes) == [k |-> "bytes", v |-> bytes]

\* No expression (a null ref<Expr>).
NullExpr == [k |-> "null", v |-> 0]

\* The bytes of "/bin/sh".
BinSh == <<47, 98, 105, 110, 47, 115, 104>>

\* A justification that adds nothing.
ljust_none(s, size, c) == s

\* ljust(s, size, c): s, filled on the right with c up to size bytes.
ljust(s, size, c) ==
    IF Len(s) >= size THEN s ELSE s \o [i \in 1..(size - Len(s)) |-> c]

\* ---- Technique and Ret2csu
\* Technique::checkRequirements(): every required gadget resolves.
Technique_checkRequirements(requiredGadgets, elf) ==
    \A g \in Range(requiredGadgets) : g = "syscall ; ret" /\ elf.hasSyscallGadget

\* Ret2csu::getRopSubchains(retAddr, arg1, arg2, arg3)[0]: the calling
\* sequence through the two __libc_csu_init gadgets.
Ret2csu_getRopSubchains(retAddr, arg1, arg2, arg3) ==
    <<BaseOffsetExpr("VAR", "__libc_csu_init_gadget1"),
      ConstantExpr64(0), ConstantExpr64(1),
      retAddr, arg1, arg2, arg3,
      BaseOffsetExpr("VAR", "__libc_csu_init_gadget2")>>

\* ---- Ret2syscall
\* A constructor without the fallback on libc's read.
Ret2syscall_ctor_gadgetOnly(elf) ==
    IF elf.hasSyscallGadget
    THEN [m_requiredGadgets |-> <<"syscall ; ret">>,
          m_syscallGadget |-> BaseOffsetExpr("VAR", "syscall_ret")]
    ELSE [m_requiredGadgets |-> <<>>, m_syscallGadget |-> NullExpr]

\* Ret2syscall::Ret2syscall().
Ret2syscall_ctor(elf) ==
    IF elf.hasSyscallGadget
    THEN [m_requiredGadgets |-> <<"syscall ; ret">>,
          m_syscallGadget |-> BaseOffsetExpr("VAR", "syscall_ret")]
    ELSE IF ~elf.hasFullRELRO /\ elf.hasRead
    THEN [m_requiredGadgets |-> <<>>, m_syscallGadget |-> BaseOffsetExpr("SYM", "read")]
    ELSE [m_requiredGadgets |-> <<>>, m_syscallGadget |-> NullExpr]

\* Ret2syscall::checkRequirements().
checkRequirements(self, elf) ==
    /\ Technique_checkRequirements(self.m_requiredGadgets, elf)
    /\ self.m_syscallGadget # NullExpr

RECURSIVE disasmFrom(_, _, _)
\* disas().disasm(code, address): the instructions of code from the i-th on,
\* each with its address.
disasmFrom(code, address, i) ==
    IF i > Len(code) THEN <<>>
    ELSE <<[mnemonic |-> code[i].mnemonic, address |-> address]>>
            \o disasmFrom(code, address + code[i].size, i + 1)

\* x & 0xff00 and x & 0xff.
and_ff00(x) == ((x \div 256) % 256) * 256
and_ff(x) == x % 256

\* Ret2syscall::getLsbOfReadSyscall(): the low byte of the address of the
\* first syscall instruction of libc's __read.  syscallOffset starts as -1,
\* whose low byte is 255; the assertion stops a build that keeps assertions.
getLsbOfReadSyscall(libcRead, asserts) ==
    LET insns == disasmFrom(libcRead.code, libcRead.address, 1)
        found == {i \in 1..Len(insns) : insns[i].mnemonic = "syscall"}
    IN  IF found = {} THEN [fatal |-> FALSE, lsb |-> 255]
        ELSE LET syscallOffset == insns[CHOOSE i \in found : \A j \in found : i <= j].address
             IN  IF asserts /\ and_ff00(syscallOffset) # and_ff00(libcRead.address)
                 THEN [fatal |-> TRUE, lsb |-> 0]
                 ELSE [fatal |-> FALSE, lsb |-> and_ff(syscallOffset)]

\* A chain whose second calling sequence comes first.
getRopSubchains_swapped(self, b) ==
    LET part1 == Ret2csu_getRopSubchains(self.m_syscallGadget, ConstantExpr64(0),
                                         BaseOffsetExpr("GOT", "read"), ConstantExpr64(1))
        part2 == Ret2csu_getRopSubchains(self.m_syscallGadget, ConstantExpr64(1),
                                         ConstantExpr64(0), ConstantExpr64(0))
        part3 == Ret2csu_getRopSubchains(self.m_syscallGadget, ConstantExpr64(0),
                                         BaseOffsetExpr("BSS", ""), ConstantExpr64(59))
        part4 == Ret2csu_getRopSubchains(self.m_syscallGadget, BaseOffsetExpr("BSS", ""),
                                         ConstantExpr64(0), ConstantExpr64(0))
        lsb == getLsbOfReadSyscall(b.libcRead, b.asserts)
    IN  IF lsb.fatal THEN [fatal |-> TRUE, ret |-> <<>>]
        ELSE [fatal |-> FALSE,
              ret |-> <<<<ConstantExpr64(0)>> \o part2 \o part1 \o part3 \o part4,
                        <<ByteVectorExpr(<<lsb.lsb>>)>>,
                        <<ByteVectorExpr(ljust(BinSh, 59, 0))>>>>]

\* Ret2syscall::getRopSubchains(): { ret1, ret2, ret3 }, unless the
\* assertion in getLsbOfReadSyscall stops the program.
getRopSubchains(self, b) ==
    LET part1 == Ret2csu_getRopSubchains(self.m_syscallGadget, ConstantExpr64(0),
                                         BaseOffsetExpr("GOT", "read"), ConstantExpr64(1))
        part2 == Ret2csu_getRopSubchains(self.m_syscallGadget, ConstantExpr64(1),
                                         ConstantExpr64(0), ConstantExpr64(0))
        part3 == Ret2csu_getRopSubchains(self.m_syscallGadget, ConstantExpr64(0),
                                         BaseOffsetExpr("BSS", ""), ConstantExpr64(59))
        part4 == Ret2csu_getRopSubchains(self.m_syscallGadget, BaseOffsetExpr("BSS", ""),
                                         ConstantExpr64(0), ConstantExpr64(0))
        lsb == getLsbOfReadSyscall(b.libcRead, b.asserts)
    IN  IF lsb.fatal THEN [fatal |-> TRUE, ret |-> <<>>]
        ELSE [fatal |-> FALSE,
              ret |-> <<<<ConstantExpr64(0)>> \o part1 \o part2 \o part3 \o part4,
                        <<ByteVectorExpr(<<lsb.lsb>>)>>,
                        <<ByteVectorExpr(ljust(BinSh, 59, 0))>>>>]

\* ---- inputs
\* The instructions __read may consist of, with their sizes in bytes.
Instructions == {[mnemonic |-> "nop", size |-> 1],
                 [mnemonic |-> "mov", size |-> 3],
                 [mnemonic |-> "syscall", size |-> 2]}
ReadCodes == UNION {[1..n -> Instructions] : n \in 0..MaxInstrs}

\* The addresses libc's __read may start at.
ReadAddresses == {16, 253, 254}

\* The target ELF and libc as the Exploit describes them; asserts tells
\* whether the build keeps its assertions.
Binaries ==
    [elf : [hasSyscallGadget : BOOLEAN, hasFullRELRO : BOOLEAN, hasRead : BOOLEAN],
     libcRead : [address : ReadAddresses, code : ReadCodes],
     asserts : BOOLEAN]

\* The technique is constructed.
construct ==
    /\ ret2syscall = <<>>
    /\ ret2syscall' = Ret2syscall_ctor(binaries.elf)
    /\ UNCHANGED <<binaries, techCall, techResult>>

\* The call checkRequirements() on the constructed technique.
callCheckRequirements ==
    /\ ret2syscall # <<>>
    /\ techCall = <<>>
    /\ techCall' = <<"checkRequirements">>
    /\ techResult' = checkRequirements(ret2syscall, binaries.elf)
    /\ UNCHANGED <<binaries, ret2syscall>>

\* The call getRopSubchains() on a technique whose requirements hold.
callGetRopSubchains ==
    /\ ret2syscall # <<>>
    /\ techCall = <<>>
    /\ checkRequirements(ret2syscall, binaries.elf)
    /\ techCall' = <<"getRopSubchains">>
    /\ techResult' = getRopSubchains(ret2syscall, binaries)
    /\ UNCHANGED <<binaries, ret2syscall>>

InitTech ==
    /\ RopIdle
    /\ DispatchIdle
    /\ MemoryIdle
    /\ GenIdle
    /\ GhostIdle
    /\ binaries \in Binaries
    /\ ret2syscall = <<>>
    /\ techCall = <<>>
    /\ techResult = <<>>

NextTech ==
    \/ construct /\ UNCHANGED <<ropVars, dispatchVars, memVars, genVars, ghostVars>>
    \/ callCheckRequirements /\ UNCHANGED <<ropVars, dispatchVars, memVars, genVars, ghostVars>>
    \/ callGetRopSubchains /\ UNCHANGED <<ropVars, dispatchVars, memVars, genVars, ghostVars>>

SpecTech == InitTech /\ [][NextTech]_vars

\* C23: checkRequirements() returns true exactly when the base requirements
\* hold and a syscall-capable address was resolved: the binary has a
\* `syscall ; ret` gadget, or it lacks full RELRO and has a `read` symbol.
\* With full RELRO and no gadget it returns false.
C23_RequirementsIffSyscallAddress ==
    techCall = <<"checkRequirements">> =>
        /\ techResult =
              (/\ Technique_checkRequirements(ret2syscall.m_requiredGadgets, binaries.elf)
               /\ \/ binaries.elf.hasSyscallGadget
                  \/ ~binaries.elf.hasFullRELRO /\ binaries.elf.hasRead)
        /\ (binaries.elf.hasFullRELRO /\ ~binaries.elf.hasSyscallGadget) => ~techResult

\* The requirements held through the fallback on libc's read.
C23_FallbackAccepted ==
    /\ techCall = <<"checkRequirements">>
    /\ techResult
    /\ ~binaries.elf.hasSyscallGadget
    /\ ret2syscall.m_syscallGadget = BaseOffsetExpr("SYM", "read")

\* getRopSubchains() has returned.
Returned == techCall = <<"getRopSubchains">> /\ ~techResult.fatal

\* The calling sequence for (arg1, arg2, arg3) through the technique's
\* syscall-capable address.
CallingSequence(arg1, arg2, arg3) ==
    Ret2csu_getRopSubchains(ret2syscall.m_syscallGadget, arg1, arg2, arg3)

\* C24: getRopSubchains() returns exactly 3 subchains.  The first is a zero
\* literal followed by the calling sequences read-setup (0, GOT read, 1),
\* zero-argument syscall (1, 0, 0), bss-read (0, BSS, 59) and execve
\* (BSS, 0, 0), in this order, so it has 1 plus the four lengths; the second
\* is one byte vector of a single byte; the third is one byte vector,
\* "/bin/sh" filled with zero bytes to exactly 59 bytes.
C24_ThreeSubchains ==
    Returned =>
        LET ret == techResult.ret
            s1 == CallingSequence(ConstantExpr64(0), BaseOffsetExpr("GOT", "read"),
                                  ConstantExpr64(1))
            s2 == CallingSequence(ConstantExpr64(1), ConstantExpr64(0), ConstantExpr64(0))
            s3 == CallingSequence(ConstantExpr64(0), BaseOffsetExpr("BSS", ""),
                                  ConstantExpr64(59))
            s4 == CallingSequence(BaseOffsetExpr("BSS", ""), ConstantExpr64(0),
                                  ConstantExpr64(0))
        IN  /\ Len(ret) = 3
            /\ ret[1] = <<ConstantExpr64(0)>> \o s1 \o s2 \o s3 \o s4
            /\ Len(ret[1]) = 1 + Len(s1) + Len(s2) + Len(s3) + Len(s4)
            /\ Len(ret[2]) = 1 /\ ret[2][1].k = "bytes" /\ Len(ret[2][1].v) = 1
            /\ Len(ret[3]) = 1 /\ ret[3][1].k = "bytes" /\ Len(ret[3][1].v) = 59
            /\ SubSeq(ret[3][1].v, 1, Len(BinSh)) = BinSh
            /\ \A i \in (Len(BinSh) + 1)..59 : ret[3][1].v[i] = 0

\* The subchains were returned by a technique that goes through libc's read.
C24_SubchainsThroughRead ==
    /\ Returned
    /\ ret2syscall.m_syscallGadget = BaseOffsetExpr("SYM", "read")
    /\ Len(techResult.ret) = 3

\* The number of bytes an expression evaluates to: a 64-bit constant and an
\* address take a stack slot, a byte vector its bytes.
EvaluatedLength(e) ==
    CASE e.k = "const" -> e.width \div 8
      [] e.k = "baseoffset" -> 8
      [] e.k = "bytes" -> Len(e.v)

RECURSIVE SubchainLength(_)
\* The number of bytes the concatenated evaluation of a subchain has.
SubchainLength(subchain) ==
    IF subchain = <<>> THEN 0
    ELSE EvaluatedLength(Head(subchain)) + SubchainLength(Tail(subchain))

\* C25: slot alignment: each of the subchains getRopSubchains() returns
\* evaluates to 8 bytes times the number of its expressions.
C25_EverySubchainSlotAligned ==
    Returned =>
        \A i \in 1..Len(techResult.ret) :
            SubchainLength(techResult.ret[i]) = 8 * Len(techResult.ret[i])

\* C25, amended: the first subchain getRopSubchains() returns evaluates to 8
\* bytes times the number of its expressions; the second, one expression,
\* evaluates to 1 byte and the third, one expression, to 59 bytes.
C25_FirstSubchainSlotAligned ==
    Returned =>
        /\ SubchainLength(techResult.ret[1]) = 8 * Len(techResult.ret[1])
        /\ Len(techResult.ret[2]) = 1 /\ SubchainLength(techResult.ret[2]) = 1
        /\ Len(techResult.ret[3]) = 1 /\ SubchainLength(techResult.ret[3]) = 59

\* The subchains were returned by a technique that has the gadget; the first
\* holds the four calling sequences.
C25_SubchainsThroughGadget ==
    /\ Returned
    /\ binaries.elf.hasSyscallGadget
    /\ Len(techResult.ret[1]) > 4
    /\ SubchainLength(techResult.ret[1]) = 8 * Len(techResult.ret[1])

\* The instructions of __read and the first syscall among them.
ReadInsns == disasmFrom(binaries.libcRead.code, binaries.libcRead.address, 1)
SyscallsOfRead == {i \in 1..Len(ReadInsns) : ReadInsns[i].mnemonic = "syscall"}
FirstSyscallAddress ==
    ReadInsns[CHOOSE i \in SyscallsOfRead : \A j \in SyscallsOfRead : i <= j].address

\* C28: the redirect byte in the second subchain is the low byte of the
\* address of the first syscall instruction of the library read routine, an
\* address that agrees with the routine's entry in bits 8..15; when the
\* routine has no syscall instruction or the bits differ, the generation
\* stops with a fatal error and no redirect byte is produced.
C28_RedirectByteOrFatal ==
    techCall = <<"getRopSubchains">> =>
        IF \/ SyscallsOfRead = {}
           \/ and_ff00(FirstSyscallAddress) # and_ff00(binaries.libcRead.address)
        THEN techResult.fatal
        ELSE /\ ~techResult.fatal
             /\ techResult.ret[2] = <<ByteVectorExpr(<<FirstSyscallAddress % 256>>)>>

\* ============================ the in-progress group and interleaved states
\* The variables the producer's specification leaves as constructed.
leakFrame == <<dispatchVars, memVars, genVars, techVars, pendingSyscalls>>

\* The producer calls and the callbacks that select a state, with the state
\* selected at each addConstraint() call recorded in addedWhile.
NextLeak ==
    \/ \E c \in Constraints :
          /\ addConstraint(c)
          /\ addedWhile' = Append(addedWhile, m_currentState)
          /\ UNCHANGED leakFrame
    \/ /\ commitConstraints
       /\ addedWhile' = <<>>
       /\ UNCHANGED leakFrame
    \/ \E s \in States :
          /\ onExecuteInstructionEnd(s)
          /\ UNCHANGED <<addedWhile, leakFrame>>

SpecLeak == Init /\ [][NextLeak]_vars

\* C29: no constraint leaks across states through the in-progress group:
\* whatever the interleaving of the callbacks of two states, the group a
\* commit puts in the queue of a state holds only constraints that were
\* added while that state was selected.
C29_GroupAddedUnderItsState ==
    [][nCommits' = nCommits + 1 =>
          /\ Len(addedWhile) = Len(m_currentConstraintGroup)
          /\ \A i \in 1..Len(addedWhile) : addedWhile[i] = m_currentState
      ]_vars

\* ============================ syscall entry and exit of interleaved states
\* What the guest did, per state: the syscalls a state entered and has not
\* yet returned from, keyed by <<state, address after the syscall>>.  The
\* instruction at pc first returns from the syscall before it, then, when it
\* is a syscall itself, enters with the number in rax.
executed(pending, s, pc, rax) ==
    LET returned == [k \in DOMAIN pending \ {<<s, pc>>} |-> pending[k]]
    IN  IF disasm(pc) # NoInstruction /\ disasm(pc).mnemonic = "syscall"
        THEN (<<s, pc + 2>> :> [nr |-> rax, ret |-> 0]) @@ returned
        ELSE returned

syscallFrame == <<m_currentConstraintGroup, constraintsQueue, regs, memory, injections,
                  terminated, userSpecifiedElfBase, crashed, event, history,
                  pluginState, moduleStates, m_disableNativeForking,
                  memVars, genVars, techVars, addedWhile>>

\* The instruction callbacks of the states, in any interleaving, with the
\* syscalls each state is inside recorded in pendingSyscalls.
NextSyscall ==
    \/ \E s \in States, pc \in PCs, rax \in RaxValues :
          /\ onExecuteInstructionStart(s, pc, rax)
          /\ pendingSyscalls' = executed(pendingSyscalls, s, pc, rax)
          /\ UNCHANGED syscallFrame
    \/ \E s \in States, pc \in PCs :
          /\ onExecuteInstructionEnd(s)
          /\ hooks' = afterInstruction(s, m_currentState', pc)
          /\ UNCHANGED <<pluginState, moduleStates, m_scheduledAfterSyscallHooks,
                         m_allowedForkingStates, m_disableNativeForking, allowForking,
                         memVars, genVars, techVars, ghostVars>>

SpecSyscall == InitDispatch /\ [][NextSyscall]_vars

\* The syscalls of state s that the step returns from.
Returned_from(s) ==
    {k \in DOMAIN pendingSyscalls : k[1] = s /\ k \notin DOMAIN pendingSyscalls'}

\* C30: the context handed to the exit hooks of a state is the one captured
\* at that state's own matching syscall entry, and the exit hooks fire
\* exactly once per entry: in every callback, the exit emissions of a state
\* are as many as the syscalls that state returns from (none without a
\* preceding entry of that state), and each carries the syscall number that
\* state recorded at its entry.
C30_ExitContextOfSameState ==
    [][\A s \in States :
          LET exits == EmissionsOf(hooks', "afterSyscallHooks", s)
          IN  /\ Cardinality(exits) = Cardinality(Returned_from(s))
              /\ \A x \in exits :
                    \E k \in Returned_from(s) : hooks'[x].ctx.nr = pendingSyscalls[k].nr
      ]_vars

\* ============================ CRAX::getBelongingSymbol
MaxSymbols == 4
MaxSymAddr == 3

\* Symbol names are opaque; EmptyName is the empty string.
EmptyName == 0
SymbolNames == 1..MaxSymbols
SymAddrs == 0..MaxSymAddr

\* ELF::SymbolMap: name -> address, not empty.
SymbolMaps == UNION {[ns -> SymAddrs] : ns \in SUBSET SymbolNames \ {{}}}

\* std::sort of the (name, address) pairs by address: every order of the
\* pairs with non-decreasing addresses (the order of equal addresses is
\* unspecified).
RECURSIVE sortByAddress(_, _)
sortByAddress(m, names) ==
    IF names = {} THEN {<<>>}
    ELSE UNION {{<<[first |-> n, second |-> m[n]]>> \o rest :
                     rest \in sortByAddress(m, names \ {n})} :
                n \in {x \in names : \A y \in names : m[x] <= m[y]}}

\* What a read outside the vector yields: a crash, or some pair.
OutOfBoundsReads == [crash : BOOLEAN, first : SymbolNames \cup {EmptyName}, second : SymAddrs]

\* syms[i] of the 0-indexed vector; outside it, the out-of-bounds read.
symAt(syms, i, ub) ==
    IF i \in 0..(Len(syms) - 1) THEN syms[i + 1] ELSE [first |-> ub.first, second |-> ub.second]
inBounds(syms, i) == i \in 0..(Len(syms) - 1)

SymbolResult(name, outcome, oob) == [name |-> name, outcome |-> outcome, oob |-> oob]

\* The while loop, 527-535; iters counts the iterations made.  A loop that
\* has made more iterations than the vector has entries, which no halving
\* search does, is reported as not terminating.
RECURSIVE searchLoop(_, _, _, _, _, _, _)
searchLoop(syms, instructionAddr, left, right, ub, oob, iters) ==
    IF ~(left < right) THEN [left |-> left, outcome |-> "returned", oob |-> oob]
    ELSE IF iters > Len(syms) THEN [left |-> left, outcome |-> "diverged", oob |-> oob]
    ELSE LET mid == left + ((right + left) \div 2)
             addr == symAt(syms, mid, ub).second
         IN  IF ~inBounds(syms, mid) /\ ub.crash
             THEN [left |-> left, outcome |-> "crashed", oob |-> TRUE]
             ELSE IF addr < instructionAddr
                  THEN searchLoop(syms, instructionAddr, mid + 1, right, ub,
                                  oob \/ ~inBounds(syms, mid), iters + 1)
                  ELSE searchLoop(syms, instructionAddr, left, mid - 1, ub,
                                  oob \/ ~inBounds(syms, mid), iters + 1)

\* CRAX::getBelongingSymbol(instructionAddr) on the sorted vector syms.
getBelongingSymbol(syms, instructionAddr, ub) ==
    IF instructionAddr < syms[1].second
    THEN SymbolResult(EmptyName, "returned", FALSE)
    ELSE LET r == searchLoop(syms, instructionAddr, 0, Len(syms) - 1, ub, FALSE, 0)
         IN  IF r.outcome # "returned"
             THEN SymbolResult(EmptyName, r.outcome, r.oob)
             ELSE IF ~inBounds(syms, r.left) /\ ub.crash
                  THEN SymbolResult(EmptyName, "crashed", TRUE)
                  ELSE LET left == IF instructionAddr < symAt(syms, r.left, ub).second
                                   THEN r.left - 1 ELSE r.left
                           oob == r.oob \/ ~inBounds(syms, r.left) \/ ~inBounds(syms, left)
                       IN  IF ~inBounds(syms, left) /\ ub.crash
                           THEN SymbolResult(EmptyName, "crashed", TRUE)
                           ELSE SymbolResult(symAt(syms, left, ub).first, "returned", oob)

\* The call getBelongingSymbol(instructionAddr): the symbol table is copied
\* and sorted (509-514), then searched.
callGetBelongingSymbol(instructionAddr, syms, ub) ==
    /\ techCall = <<>>
    /\ techCall' = <<"getBelongingSymbol", instructionAddr, syms>>
    /\ techResult' = getBelongingSymbol(syms, instructionAddr, ub)
    /\ UNCHANGED <<binaries, ret2syscall>>

InitSymbol ==
    /\ RopIdle
    /\ DispatchIdle
    /\ MemoryIdle
    /\ GenIdle
    /\ GhostIdle
    /\ binaries \in {[symbols |-> m] : m \in SymbolMaps}
    /\ ret2syscall = <<>>
    /\ techCall = <<>>
    /\ techResult = <<>>

NextSymbol ==
    /\ \E instructionAddr \in SymAddrs, ub \in OutOfBoundsReads :
          \E syms \in sortByAddress(binaries.symbols, DOMAIN binaries.symbols) :
              callGetBelongingSymbol(instructionAddr, syms, ub)
    /\ UNCHANGED <<ropVars, dispatchVars, memVars, genVars, ghostVars>>

SpecSymbol == InitSymbol /\ [][NextSymbol]_vars

\* The names of the symbols with the greatest address <= a; the empty name
\* when a is below every symbol.
BelongingSymbols(m, a) ==
    LET below == {n \in DOMAIN m : m[n] <= a}
    IN  IF below = {} THEN {EmptyName}
        ELSE {n \in below : \A x \in below : m[x] <= m[n]}

\* C31: getBelongingSymbol(addr) over a non-empty symbol table terminates,
\* uses only indexes inside the table, and returns the name of the symbol
\* with the greatest address less than or equal to addr, or the empty
\* string when addr is below the lowest symbol address.
C31_BelongingSymbolFound ==
    techCall # <<>> =>
        /\ techResult.outcome = "returned"
        /\ ~techResult.oob
        /\ techResult.name \in BelongingSymbols(binaries.symbols, techCall[2])

====
